---- MODULE Spec2Model ----
(***************************************************************************)
(* A model of the ResearchScraper pipeline (arxiv_fetcher): the time       *)
(* bounded cache, the rate limited arXiv client, and the download, parse   *)
(* and summarize stages with their persisted logs.                         *)
(*                                                                         *)
(* Three specifications share the variables:                               *)
(*   CacheSpec  the two CacheManager variants, driven in lockstep          *)
(*   FetchSpec  ArxivClient.fetch_papers, one step per outbound request    *)
(*   Spec       PaperDownloader, PaperParser, PaperSummarizer on one disk  *)
(***************************************************************************)
EXTENDS Integers, Sequences, FiniteSets, TLC

VARIABLES
    \* ---- cache (CacheSpec) ----
    now,            \* time.time(), in whole seconds
    cacheDuration,  \* CacheManager.cache_duration
    cacheFile,      \* the cache file of the arxiv_fetcher.cache_manager variant
    topFile,        \* the cache file of the top-level cache_manager variant
    cacheOp,        \* the last call made on both variants, with its two results
    lastSet,        \* history: per key, the last set of the package variant that returned
    \* ---- arXiv client (FetchSpec) ----
    clock,          \* time.time() / datetime.now(), in whole seconds
    last_request_time,  \* ArxivClient.last_request_time
    fetch,          \* the running fetch_papers call (its locals)
    requests,       \* history: the clock time of every outbound request
    fetchOut,       \* the outcome of the last fetch_papers call
    \* ---- pipeline (Spec) ----
    today,          \* the date part of datetime.now()
    inputFile,      \* the analyzed-papers file given to the download stage
    logFile,        \* papers/.download_log.json
    dirs,           \* the directories under papers/, with their files
    sumFile,        \* paper_summaries.json
    dl,             \* the running download_papers call
    ps,             \* the running parse_papers call
    sm,             \* the running process_papers call
    hist,           \* history: what the runs did (calls made, previous run)
    \* ---- identifier resolution (ResolveSpec) ----
    linkArg,        \* the reference string given to _extract_arxiv_id_from_link
    resolutions,    \* history: the last two calls, with what they returned
    \* ---- relevance analysis (AnalyzeSpec) ----
    an,             \* the running analyze_papers call
    anFile,         \* the output file of analyze_papers
    \* ---- JSON export (ExportSpec) ----
    ex,             \* the export_to_json call and the reading back of its file
    exFile,         \* the file export_to_json wrote
    \* ---- directory naming (NameSpec) ----
    titleArg,       \* the title of the paper given to _create_paper_dir
    created,        \* history: the last call, with the name it made
    \* ---- command line (CliSpec) ----
    cli,            \* the last command run, with how its process ended
    fetched         \* history: the last run_fetcher that stored its result

cacheVars == <<now, cacheDuration, cacheFile, topFile, cacheOp, lastSet>>
fetchVars == <<clock, last_request_time, fetch, requests, fetchOut>>
pipeVars  == <<today, inputFile, logFile, dirs, sumFile, dl, ps, sm, hist>>
resolveVars == <<linkArg, resolutions>>
analyzeVars == <<an, anFile>>
exportVars  == <<ex, exFile>>
nameVars    == <<titleArg, created>>
cliVars     == <<cli, fetched>>
toolVars  == <<resolveVars, analyzeVars, exportVars, nameVars, cliVars>>
vars      == <<cacheVars, fetchVars, pipeVars, toolVars>>

(***************************************************************************)
(* Python values and results.  A call either returns a value or raises.    *)
(***************************************************************************)
Ok(v)    == [ok |-> TRUE, v |-> v]
Raise(e) == [ok |-> FALSE, e |-> e]

\* JSON documents as json.load returns them.
JNull   == [t |-> "null"]
JNum(n) == [t |-> "num", n |-> n]
JStr(s) == [t |-> "str", s |-> s]
JArr(a) == [t |-> "arr", a |-> a]
JObj(m) == [t |-> "obj", m |-> m]
EmptyDict == JObj(<<>>)

\* Python's None is what JSON null loads as.
PyNone == JNull

\* `key in x`: membership for a dict, element test for a list, substring test for
\* a str (the strings of the model contain a key only when they equal it), and a
\* TypeError for a number or None.
PyIn(key, x) ==
    CASE x.t = "obj" -> Ok(key \in DOMAIN x.m)
      [] x.t = "arr" -> Ok(\E i \in DOMAIN x.a : x.a[i] = JStr(key))
      [] x.t = "str" -> Ok(x.s = key)
      [] OTHER       -> Raise("TypeError")

\* `x[key]` with a str key.
PyGetItem(x, key) ==
    IF x.t = "obj"
    THEN IF key \in DOMAIN x.m THEN Ok(x.m[key]) ELSE Raise("KeyError")
    ELSE Raise("TypeError")

\* an assignment that keeps no other key of the table
PySetItemAlone(x, key, v) ==
    IF x.t = "obj" THEN Ok(JObj([k \in {key} |-> v])) ELSE Raise("TypeError")

\* `x[key] = v` with a str key.
PySetItem(x, key, v) ==
    IF x.t = "obj"
    THEN Ok(JObj([k \in (DOMAIN x.m) \cup {key} |-> IF k = key THEN v ELSE x.m[k]]))
    ELSE Raise("TypeError")

\* `t - ts` for a float t.
PySub(t, ts) ==
    IF ts.t = "num" THEN Ok(t - ts.n) ELSE Raise("TypeError")

(***************************************************************************)
(* The cache file and the two CacheManager variants.                       *)
(***************************************************************************)
MaxClock    == 3
MaxDuration == 2

CacheKeys == {"k1", "k2"}
Payloads  == {JStr("v1"), JStr("v2"), JArr(<<>>)}

Absent      == [kind |-> "absent"]
NotUtf8     == [kind |-> "bytes"]    \* bytes that do not decode as UTF-8
NotJson     == [kind |-> "text"]     \* text that is not a JSON document
JsonFile(d) == [kind |-> "json", doc |-> d]

CacheEntry(ts, data) == JObj([timestamp |-> JNum(ts), data |-> data])

\* What the cache file may hold when a call starts: nothing, garbage, JSON of the
\* wrong shape, and objects whose entry for k1 is malformed.
InitialCacheFiles ==
    { Absent, NotUtf8, NotJson,
      JsonFile(EmptyDict),
      JsonFile(JArr(<<>>)), JsonFile(JArr(<<JStr("k1")>>)),
      JsonFile(JNum(1)), JsonFile(JNull), JsonFile(JStr("k1")),
      JsonFile(JObj([k1 |-> JNum(1)])),
      JsonFile(JObj([k1 |-> JObj([data |-> JStr("v1")])])),
      JsonFile(JObj([k1 |-> JObj([timestamp |-> JNum(0)])])),
      JsonFile(JObj([k1 |-> JObj([timestamp |-> JStr("k1"), data |-> JStr("v1")])])),
      JsonFile(JObj([k1 |-> CacheEntry(0, JStr("v1"))])) }

\* open(cache_file, 'r') and json.load(f) on an existing file.
JsonLoad(file) ==
    CASE file.kind = "bytes" -> Raise("UnicodeDecodeError")
      [] file.kind = "text"  -> Raise("JSONDecodeError")
      [] OTHER               -> Ok(file.doc)

\* CacheLookup with the expiry test off by one at the boundary (<= for <).
CacheLookupInclusive(cache, key, t, duration) ==
    LET isIn == PyIn(key, cache) IN
    IF ~isIn.ok THEN isIn
    ELSE IF ~isIn.v THEN Ok(PyNone)
    ELSE LET entry == PyGetItem(cache, key) IN
         IF ~entry.ok THEN entry
         ELSE LET ts == PyGetItem(entry.v, "timestamp") IN
              IF ~ts.ok THEN ts
              ELSE LET age == PySub(t, ts.v) IN
                   IF ~age.ok THEN age
                   ELSE IF age.v <= duration THEN PyGetItem(entry.v, "data")
                   ELSE Ok(PyNone)

\* The lookup both variants make on the loaded table:
\*   if key in cache: entry = cache[key];
\*       if time.time() - entry['timestamp'] < self.cache_duration: return entry['data']
\*   return None
CacheLookup(cache, key, t, duration) ==
    LET isIn == PyIn(key, cache) IN
    IF ~isIn.ok THEN isIn
    ELSE IF ~isIn.v THEN Ok(PyNone)
    ELSE LET entry == PyGetItem(cache, key) IN
         IF ~entry.ok THEN entry
         ELSE LET ts == PyGetItem(entry.v, "timestamp") IN
              IF ~ts.ok THEN ts
              ELSE LET age == PySub(t, ts.v) IN
                   IF ~age.ok THEN age
                   ELSE IF age.v < duration THEN PyGetItem(entry.v, "data")
                   ELSE Ok(PyNone)

\* arxiv_fetcher/cache_manager.py: except (json.JSONDecodeError, KeyError, TypeError)
PkgGetCaught == {"JSONDecodeError", "KeyError", "TypeError"}

\* arxiv_fetcher.cache_manager.CacheManager.get
PkgGet(file, key, t, duration) ==
    IF file.kind = "absent" THEN Ok(PyNone)
    ELSE LET loaded == JsonLoad(file)
             r == IF loaded.ok THEN CacheLookup(loaded.v, key, t, duration) ELSE loaded
         IN  IF ~r.ok /\ r.e \in PkgGetCaught THEN Ok(PyNone) ELSE r

\* arxiv_fetcher.cache_manager.CacheManager.set: the result and the file afterwards
PkgSet(file, key, value, t) ==
    LET loaded == IF file.kind = "absent" THEN Ok(EmptyDict) ELSE JsonLoad(file)
        cache  == IF ~loaded.ok /\ loaded.e = "JSONDecodeError" THEN Ok(EmptyDict) ELSE loaded
    IN  IF ~cache.ok THEN [res |-> cache, file |-> file]
        ELSE LET stored == PySetItem(cache.v, key, CacheEntry(t, value)) IN
             IF ~stored.ok THEN [res |-> stored, file |-> file]
             ELSE [res |-> Ok(PyNone), file |-> JsonFile(stored.v)]

\* cache_manager.CacheManager._load_cache
TopLoadCache(file) ==
    IF file.kind = "absent" THEN Ok(EmptyDict)
    ELSE LET loaded == JsonLoad(file) IN
         IF ~loaded.ok /\ loaded.e = "JSONDecodeError" THEN Ok(EmptyDict) ELSE loaded

\* cache_manager.CacheManager.get
TopGet(file, key, t, duration) ==
    LET cache == TopLoadCache(file) IN
    IF ~cache.ok THEN cache ELSE CacheLookup(cache.v, key, t, duration)

\* cache_manager.CacheManager.set
TopSet(file, key, value, t) ==
    LET cache == TopLoadCache(file) IN
    IF ~cache.ok THEN [res |-> cache, file |-> file]
    ELSE LET stored == PySetItem(cache.v, key, CacheEntry(t, value)) IN
         IF ~stored.ok THEN [res |-> stored, file |-> file]
         ELSE [res |-> Ok(PyNone), file |-> JsonFile(stored.v)]

NoOp == [op |-> "none"]
NoSet == [set |-> FALSE]

CacheInit ==
    /\ now = 0
    /\ cacheDuration \in 0..MaxDuration
    /\ cacheFile \in InitialCacheFiles
    /\ topFile = cacheFile
    /\ cacheOp = NoOp
    /\ lastSet = [k \in CacheKeys |-> NoSet]

\* cache_manager.get(key) on both variants, at the same clock time
CacheGet ==
    /\ \E key \in CacheKeys :
        cacheOp' = [op |-> "get", key |-> key, at |-> now, before |-> cacheFile,
                    pkg |-> PkgGet(cacheFile, key, now, cacheDuration),
                    top |-> TopGet(topFile, key, now, cacheDuration)]
    /\ UNCHANGED <<now, cacheDuration, cacheFile, topFile, lastSet>>
    /\ UNCHANGED <<fetchVars, pipeVars, toolVars>>

\* cache_manager.set(key, value) on both variants, at the same clock time
CacheSet ==
    /\ \E key \in CacheKeys, value \in Payloads :
        LET p == PkgSet(cacheFile, key, value, now)
            q == TopSet(topFile, key, value, now)
        IN  /\ cacheFile' = p.file
            /\ topFile' = q.file
            /\ cacheOp' = [op |-> "set", key |-> key, value |-> value, at |-> now,
                           before |-> cacheFile, pkg |-> p.res, top |-> q.res]
            /\ lastSet' = IF p.res.ok
                          THEN [lastSet EXCEPT ![key] = [set |-> TRUE, at |-> now, value |-> value]]
                          ELSE lastSet
    /\ UNCHANGED <<now, cacheDuration>>
    /\ UNCHANGED <<fetchVars, pipeVars, toolVars>>

\* the clock advances between calls
CacheTick ==
    /\ now < MaxClock
    /\ now' = now + 1
    /\ UNCHANGED <<cacheDuration, cacheFile, topFile, cacheOp, lastSet>>
    /\ UNCHANGED <<fetchVars, pipeVars, toolVars>>

CacheNext == CacheGet \/ CacheSet \/ CacheTick

(***************************************************************************)
(* ArxivClient: the rate limit and fetch_papers.                           *)
(*                                                                         *)
(* One clock, in seconds, serves time.time() and datetime.now(); a day of  *)
(* the model has SecondsPerDay seconds, so that dates and the request      *)
(* delay fit the same small clock.                                         *)
(***************************************************************************)
API_DELAY     == 3
SecondsPerDay == 4
MaxDays       == 2      \* the largest lookback window tried
MaxEntries    == 1      \* entries per response: max_results of the calls
MaxLatency    == 1      \* seconds an outbound request may take
MaxElapsed    == 5      \* seconds the clock may run on after its first reading

\* The first day of the clock: late enough for every date of a window to be a day >= 0.
EpochDay == MaxDays + 1

DayOf(t)    == t \div SecondsPerDay
Midnight(d) == d * SecondsPerDay

\* The category filters of a call: none (the default category is used), one, two.
CategoryLists == { <<>>, <<"cs.AI">>, <<"cs.CY", "cs.HC">> }
DEFAULT_CATEGORY == "cs.default"

\* The <published> text of an entry: a timestamp of some day, no element, or junk.
PubDate(d)   == [text |-> "date", day |-> d]
PubMissing   == [text |-> "missing"]
PubGarbage   == [text |-> "junk"]
Published(t) == { PubDate(d) : d \in (DayOf(t) - MaxDays - 1)..DayOf(t) }
                    \cup { PubMissing, PubGarbage }

Links == {"L1"}
Entries(t) == [link : Links, published : Published(t)]

RECURSIVE SeqsUpTo(_, _)
SeqsUpTo(S, n) ==
    IF n = 0 THEN { <<>> }
    ELSE LET shorter == SeqsUpTo(S, n - 1) IN
         shorter \cup { Append(s, x) : s \in { q \in shorter : Len(q) = n - 1 }, x \in S }

\* What one outbound request may come back with.
Responses(t) ==
    { [kind |-> "unreachable"], [kind |-> "http_error"], [kind |-> "not_xml"] }
        \cup { [kind |-> "feed", entries |-> es] : es \in SeqsUpTo(Entries(t), MaxEntries) }

\* _safe_get_text(entry, 'atom:published') then
\* datetime.strptime(paper['published'][:10], '%Y-%m-%d'): midnight of the day
Strptime(published) ==
    IF published.text = "date" THEN Ok(Midnight(published.day)) ELSE Raise("ValueError")

\* if start_date <= pub_date <= end_date
InWindow(start_date, pub_date, end_date) ==
    start_date <= pub_date /\ pub_date <= end_date

\* The entry loop of one response: the papers collected, or the error that ends it
\* together with what had been collected by then.
RECURSIVE ParseEntries(_, _, _, _)
ParseEntries(entries, start_date, end_date, all_papers) ==
    IF entries = <<>> THEN [ok |-> TRUE, papers |-> all_papers]
    ELSE LET paper == Head(entries)
             pub_date == Strptime(paper.published)
         IN  IF ~pub_date.ok
             THEN [ok |-> FALSE, e |-> pub_date.e, papers |-> all_papers]
             ELSE ParseEntries(Tail(entries), start_date, end_date,
                               IF InWindow(start_date, pub_date.v, end_date)
                               THEN Append(all_papers, paper) ELSE all_papers)

\* urlopen, read, decode and ET.fromstring, then the entry loop
HandleResponse(resp, start_date, end_date, all_papers) ==
    CASE resp.kind = "unreachable" -> [ok |-> FALSE, e |-> "URLError", papers |-> all_papers]
      [] resp.kind = "http_error"  -> [ok |-> FALSE, e |-> "HTTPError", papers |-> all_papers]
      [] resp.kind = "not_xml"     -> [ok |-> FALSE, e |-> "ParseError", papers |-> all_papers]
      [] OTHER -> ParseEntries(resp.entries, start_date, end_date, all_papers)

\* except (urllib.error.URLError, ET.ParseError); HTTPError is a URLError
FetchCaught == {"URLError", "HTTPError", "ParseError"}
WrappedError == "Exception: Error fetching papers from arXiv"

\* a failure that hands back what was collected so far instead of raising
FetchFailedPartial(f, e, seen) ==
    [status |-> "returned", failure |-> e, papers |-> f.all_papers, collected |-> f.all_papers,
     days |-> f.days, end_date |-> f.end_date, seen |-> seen]

\* The call as its caller sees it when a request fails with e: the wrapped error
\* for the caught classes, the error itself otherwise; no value is returned.
FetchFailed(f, e, seen) ==
    [status |-> "raised", failure |-> e,
     error |-> IF e \in FetchCaught THEN WrappedError ELSE e,
     papers |-> <<>>, collected |-> f.all_papers,
     days |-> f.days, end_date |-> f.end_date, seen |-> seen]

\* return all_papers
FetchReturned(f) ==
    [status |-> "returned", failure |-> "none", papers |-> f.all_papers,
     collected |-> f.all_papers, days |-> f.days, end_date |-> f.end_date, seen |-> f.seen]

\* _respect_rate_limit: the clock after the sleep
RespectRateLimit(t, last) ==
    IF t - last < API_DELAY THEN t + (API_DELAY - (t - last)) ELSE t

FetchIdle == [pc |-> "idle"]
NoFetchOut == [status |-> "none"]
NoRequests == [prev |-> -1, last |-> -1]

FetchInit ==
    /\ clock \in Midnight(EpochDay)..(Midnight(EpochDay) + SecondsPerDay - 1)
    /\ last_request_time = 0
    /\ fetch = FetchIdle
    /\ requests = NoRequests
    /\ fetchOut = NoFetchOut

ClockLimit == Midnight(EpochDay) + SecondsPerDay - 1 + MaxElapsed

\* fetch_papers(days, max_results, categories), up to the category loop
FetchCall ==
    /\ fetch.pc = "idle"
    /\ clock <= ClockLimit
    /\ \E days \in 1..MaxDays, categories \in CategoryLists :
        LET t == RespectRateLimit(clock, last_request_time) IN
        /\ clock' = t
        /\ last_request_time' = t
        /\ fetch' = [pc |-> "loop", days |-> days, end_date |-> t,
                     start_date |-> t - days * SecondsPerDay,
                     categories |-> IF categories = <<>>
                                    THEN <<DEFAULT_CATEGORY>> ELSE categories,
                     i |-> 1, all_papers |-> <<>>, seen |-> {}]
    /\ fetchOut' = NoFetchOut
    /\ UNCHANGED requests
    /\ UNCHANGED <<cacheVars, pipeVars, toolVars>>

\* one pass of the category loop: the request, the response, its entries
FetchRequest ==
    /\ fetch.pc = "loop"
    /\ fetch.i <= Len(fetch.categories)
    /\ requests' = [prev |-> requests.last, last |-> clock]
    /\ \E resp \in Responses(fetch.end_date), latency \in 0..MaxLatency :
        LET r == HandleResponse(resp, fetch.start_date, fetch.end_date, fetch.all_papers)
            seen == fetch.seen \cup
                    (IF resp.kind = "feed"
                     THEN { resp.entries[k] : k \in DOMAIN resp.entries } ELSE {})
        IN  /\ clock' = IF clock + latency <= ClockLimit THEN clock + latency ELSE clock
            /\ IF r.ok
               THEN /\ fetch' = [fetch EXCEPT !.i = @ + 1, !.all_papers = r.papers,
                                              !.seen = seen]
                    /\ UNCHANGED fetchOut
               ELSE /\ fetchOut' = FetchFailed([fetch EXCEPT !.all_papers = r.papers],
                                               r.e, seen)
                    /\ fetch' = FetchIdle
    /\ UNCHANGED last_request_time
    /\ UNCHANGED <<cacheVars, pipeVars, toolVars>>

\* return all_papers
FetchReturn ==
    /\ fetch.pc = "loop"
    /\ fetch.i > Len(fetch.categories)
    /\ fetchOut' = FetchReturned(fetch)
    /\ fetch' = FetchIdle
    /\ UNCHANGED <<clock, last_request_time, requests>>
    /\ UNCHANGED <<cacheVars, pipeVars, toolVars>>

\* time passes between calls
FetchTick ==
    /\ fetch.pc = "idle"
    /\ clock < ClockLimit
    /\ clock' = clock + 1
    /\ UNCHANGED <<last_request_time, fetch, requests, fetchOut>>
    /\ UNCHANGED <<cacheVars, pipeVars, toolVars>>

FetchNext == FetchCall \/ FetchRequest \/ FetchReturn \/ FetchTick

(***************************************************************************)
(* The pipeline's data: titles, references, paper records, files.          *)
(***************************************************************************)
MaxPapers == 2      \* records in the input file
MaxDay    == 1      \* the last date of the model
MaxTitles == 1      \* titles given to --titles

\* Strings the code takes apart are sequences of characters.
Alnum      == {"a", "b", "p", "e", "r", "s"}
Whitespace == {" ", "\t"}
DIR_NAME_MAX == 100

Min(a, b) == IF a <= b THEN a ELSE b

RECURSIVE LStrip(_)
LStrip(s) == IF s # <<>> /\ Head(s) \in Whitespace THEN LStrip(Tail(s)) ELSE s

RECURSIVE RStrip(_)
RStrip(s) ==
    IF s # <<>> /\ s[Len(s)] \in Whitespace THEN RStrip(SubSeq(s, 1, Len(s) - 1)) ELSE s

\* str.strip()
Strip(s) == RStrip(LStrip(s))

\* c if c.isalnum() or c in [' ', '-'] else '_'
SanitizeChar(c) == IF c \in Alnum \/ c \in {" ", "-"} THEN c ELSE "_"

\* the name with the title stripped before it is cut
DirNameStripFirst(title) ==
    LET stripped == Strip([i \in 1..Len(title) |-> SanitizeChar(title[i])])
    IN  SubSeq(stripped, 1, Min(DIR_NAME_MAX, Len(stripped)))

\* "".join(... for c in paper['title'])[:100].strip()
DirName(title) ==
    Strip(SubSeq([i \in 1..Len(title) |-> SanitizeChar(title[i])],
                 1, Min(DIR_NAME_MAX, Len(title))))

\* self.output_dir, and output_dir / name (output_dir / "" is output_dir)
OutputDir == <<"p", "a", "p", "e", "r", "s">>
PaperDir(name) == IF name = <<>> THEN <<OutputDir>> ELSE <<OutputDir, name>>

\* str(path).split("/")[-1]
Basename(path) == path[Len(path)]

\* the directory of the model that a path under papers/ names
DirOf(path) == IF Len(path) = 1 THEN <<>> ELSE path[2]

\* References to a paper: an abs URL, a pdf URL, a raw id, or something else;
\* num is the paper, ver its version suffix (0 for none).
Ref(form, num, ver) == [form |-> form, num |-> num, ver |-> ver]

\* the patterns with each unversioned one tried before its versioned one
PatternsUnversionedFirst ==
    << [form |-> "abs", versioned |-> FALSE], [form |-> "abs", versioned |-> TRUE],
       [form |-> "pdf", versioned |-> FALSE], [form |-> "pdf", versioned |-> TRUE],
       [form |-> "raw", versioned |-> FALSE], [form |-> "raw", versioned |-> TRUE] >>

\* The patterns of _extract_arxiv_id_from_link, in their order.
Patterns ==
    << [form |-> "abs", versioned |-> TRUE],  [form |-> "abs", versioned |-> FALSE],
       [form |-> "pdf", versioned |-> TRUE],  [form |-> "pdf", versioned |-> FALSE],
       [form |-> "raw", versioned |-> TRUE],  [form |-> "raw", versioned |-> FALSE] >>

\* re.search(pattern, link): the URL patterns are unanchored, so the unversioned
\* one also matches a versioned URL; the raw ones are anchored at both ends.
Matches(pattern, link) ==
    /\ link.form = pattern.form
    /\ IF pattern.versioned THEN link.ver > 0
       ELSE link.form \in {"abs", "pdf"} \/ link.ver = 0

\* a capture that also keeps which kind of URL it was taken from
CaptureWithForm(pattern, link) ==
    [num |-> link.num, ver |-> IF pattern.versioned THEN link.ver ELSE 0,
     form |-> pattern.form]

\* match.group(1)
Capture(pattern, link) ==
    [num |-> link.num, ver |-> IF pattern.versioned THEN link.ver ELSE 0]

\* _extract_arxiv_id_from_link: the first matching pattern's capture, or None
ExtractArxivIdFromLink(link) ==
    IF \E k \in DOMAIN Patterns : Matches(Patterns[k], link)
    THEN LET k == CHOOSE j \in DOMAIN Patterns :
                    /\ Matches(Patterns[j], link)
                    /\ \A h \in 1..(j - 1) : ~Matches(Patterns[h], link)
         IN  Ok(Capture(Patterns[k], link))
    ELSE Ok(PyNone)

\* the direct fields _get_arxiv_id tries, in order
UrlFields == <<"url", "pdf_url", "entry_id", "id", "link">>

\* possible_urls: the direct fields present, then the hrefs of 'links'
PossibleUrls(paper) ==
    LET direct == SelectSeq(UrlFields, LAMBDA f : f \in DOMAIN paper)
        fromFields == [k \in 1..Len(direct) |-> paper[direct[k]]]
        fromLinks == IF "links" \in DOMAIN paper
                     THEN [k \in 1..Len(paper.links) |-> paper.links[k].href]
                     ELSE <<>>
    IN  fromFields \o fromLinks

\* _get_arxiv_id: the id, or the error raised.  Building the ValueError's message
\* reads paper['title'], which raises KeyError on a record without a title.
GetArxivId(paper) ==
    LET urls == PossibleUrls(paper)
        hits == SelectSeq(urls, LAMBDA u : ExtractArxivIdFromLink(u).v # PyNone)
    IN  IF hits # <<>> THEN ExtractArxivIdFromLink(Head(hits))
        ELSE IF "arxiv_id" \in DOMAIN paper
             THEN LET x == ExtractArxivIdFromLink(paper.arxiv_id) IN
                  IF x.v # PyNone THEN x ELSE Ok(paper.arxiv_id)
        ELSE IF "title" \in DOMAIN paper THEN Raise("ValueError")
        ELSE Raise("KeyError")

\* The paper the id belongs to, whatever its version.
PaperOf(id) == id.num

\* The records an input file is made of: records as analyze_papers writes them,
\* with the analysis that judged them relevant, and records without one.
PaperPool ==
    { [title |-> <<"a">>,      link |-> Ref("abs", 1, 0), analysis |-> [is_relevant |-> TRUE]],
      [title |-> <<"a">>,      link |-> Ref("pdf", 1, 2), analysis |-> [is_relevant |-> TRUE]],
      [title |-> <<"a", "/">>, link |-> Ref("abs", 3, 0), analysis |-> [is_relevant |-> TRUE]],
      [title |-> <<"a", "_">>, arxiv_id |-> Ref("raw", 4, 0)],
      [title |-> <<"b">>,      link |-> Ref("other", 5, 0)],
      [link |-> Ref("other", 6, 0)] }

InputFiles == SeqsUpTo(PaperPool, MaxPapers)

\* Files.
NoFile == [file |-> FALSE]
PdfOf(id)      == [file |-> TRUE, of |-> id]
MetaOf(paper)  == [file |-> TRUE, paper |-> paper]
MarkdownOf(id) == [file |-> TRUE, of |-> id]
EmptyPaperDir  == [meta |-> NoFile, pdf |-> NoFile, md |-> NoFile]

\* A JSON object keeps the order its keys were inserted in: a sequence of entries
\* with distinct keys.
DictKeys(d)     == { d[k].key : k \in DOMAIN d }
DictHas(d, key) == \E k \in DOMAIN d : d[k].key = key
DictGet(d, key) == d[CHOOSE k \in DOMAIN d : d[k].key = key]
DictAppend(d, key, value) == Append(d, [key |-> key, value |-> value])
\* d[key] = value
DictSet(d, key, value) ==
    IF DictHas(d, key)
    THEN [k \in DOMAIN d |-> IF d[k].key = key THEN [key |-> key, value |-> value] ELSE d[k]]
    ELSE Append(d, [key |-> key, value |-> value])

\* papers/.download_log.json and paper_summaries.json
NoLogFile == [exists |-> FALSE]
LogFileOf(papers) == [exists |-> TRUE, papers |-> papers]
NoSumFile == [exists |-> FALSE]
SumFileOf(summaries, t) == [exists |-> TRUE, summaries |-> summaries, last_updated |-> t]

\* a load that ignores what the file holds
LoadEmptyLog(file) == <<>>

\* _load_download_log: {"papers": {}} when the file is absent
LoadDownloadLog(file) == IF file.exists THEN file.papers ELSE <<>>

\* mkdir(parents=True, exist_ok=True)
Mkdir(d, name) ==
    IF name \in DOMAIN d THEN d
    ELSE [n \in (DOMAIN d) \cup {name} |-> IF n = name THEN EmptyPaperDir ELSE d[n]]

WriteFile(d, name, which, content) ==
    [d EXCEPT ![name] = [@ EXCEPT ![which] = content]]

(***************************************************************************)
(* PaperDownloader.download_papers, one step per record of the input.      *)
(***************************************************************************)
DlIdle ==
    [pc |-> "idle", papers |-> <<>>, i |-> 0, log |-> <<>>, startLog |-> <<>>,
     calls |-> <<>>, failed |-> {}, skipped |-> {}, error |-> "none"]
PsIdle ==
    [pc |-> "idle", items |-> <<>>, i |-> 0, calls |-> <<>>, failed |-> {}, error |-> "none"]
SmIdle ==
    [pc |-> "idle", titles |-> <<>>, i |-> 0, summaries |-> <<>>, startSummaries |-> <<>>,
     calls |-> <<>>, failed |-> {}, error |-> "none"]
NoPrevRun == [outcome |-> "none"]

NoStageRunning == dl.pc # "run" /\ ps.pc # "run" /\ sm.pc # "run"

\* What a finished download run leaves for the next one to be compared with.
RunSummary ==
    IF dl.pc \in {"done", "error"}
    THEN [outcome |-> dl.pc, allOk |-> dl.failed = {}, calls |-> dl.calls,
          dirNames |-> DOMAIN dirs, logFile |-> logFile]
    ELSE NoPrevRun

\* the skip test with the log ignored
NeverDownloaded(log, arxiv_id) == FALSE

\* if arxiv_id in download_log['papers']
AlreadyDownloaded(log, arxiv_id) == DictHas(log, arxiv_id)

\* a download error that ends the run instead of moving on
AbortOnDownloadError(run) ==
    [run EXCEPT !.pc = "error", !.error = "Exception", !.failed = @ \cup {run.i}]

\* except Exception as e: print(...); continue
OnDownloadError(run) ==
    [run EXCEPT !.i = @ + 1, !.failed = @ \cup {run.i}]

\* the entry written to download_log['papers'][arxiv_id]
LogEntry(paper, paper_dir, day) ==
    [downloaded_at |-> day, title |-> paper.title, directory |-> paper_dir]

\* One pass of the loop over the papers: the run and the directories afterwards.
\* downloaded tells whether the download of this record comes back with the PDF.
DownloadOne(run, d, day, downloaded) ==
    LET paper == run.papers[run.i]
        id == GetArxivId(paper)
    IN  IF ~id.ok
        THEN IF id.e = "ValueError"
             THEN [run |-> [run EXCEPT !.i = @ + 1, !.skipped = @ \cup {run.i}], dirs |-> d]
             ELSE [run |-> [run EXCEPT !.pc = "error", !.error = id.e], dirs |-> d]
        ELSE IF "title" \notin DOMAIN paper
        THEN [run |-> [run EXCEPT !.pc = "error", !.error = "KeyError"], dirs |-> d]
        ELSE IF AlreadyDownloaded(run.log, id.v)
        THEN [run |-> [run EXCEPT !.i = @ + 1], dirs |-> d]
        ELSE LET name == DirName(paper.title)
                 made == WriteFile(Mkdir(d, name), name, "meta", MetaOf(paper))
                 tried == [run EXCEPT !.calls = Append(@, id.v)]
             IN  IF downloaded
                 THEN [run |-> [tried EXCEPT !.i = @ + 1,
                                  !.log = DictSet(@, id.v, LogEntry(paper, PaperDir(name), day))],
                       dirs |-> WriteFile(made, name, "pdf", PdfOf(id.v))]
                 ELSE [run |-> OnDownloadError(tried), dirs |-> made]

\* _save_download_log(download_log)
SaveDownloadLog(file, log) == LogFileOf(log)

PipeInit ==
    /\ today = 0
    /\ inputFile \in InputFiles
    /\ logFile = NoLogFile
    /\ dirs = <<>>
    /\ sumFile = NoSumFile
    /\ dl = DlIdle
    /\ ps = PsIdle
    /\ sm = SmIdle
    /\ hist = NoPrevRun

\* download_papers(input_file), up to the loop
DownloadStart ==
    /\ NoStageRunning
    /\ hist' = RunSummary
    /\ dl' = [DlIdle EXCEPT !.pc = "run", !.papers = inputFile, !.i = 1,
                            !.log = LoadDownloadLog(logFile),
                            !.startLog = LoadDownloadLog(logFile)]
    /\ ps' = PsIdle
    /\ sm' = SmIdle
    /\ UNCHANGED <<today, inputFile, logFile, dirs, sumFile>>
    /\ UNCHANGED <<cacheVars, fetchVars, toolVars>>

\* one record of the input
DownloadItem ==
    /\ dl.pc = "run"
    /\ dl.i <= Len(dl.papers)
    /\ \E downloaded \in BOOLEAN :
        LET r == DownloadOne(dl, dirs, today, downloaded) IN
        /\ dl' = r.run
        /\ dirs' = r.dirs
    /\ UNCHANGED <<today, inputFile, logFile, sumFile, ps, sm, hist>>
    /\ UNCHANGED <<cacheVars, fetchVars, toolVars>>

\* after the loop: the log is saved
DownloadFinish ==
    /\ dl.pc = "run"
    /\ dl.i > Len(dl.papers)
    /\ logFile' = SaveDownloadLog(logFile, dl.log)
    /\ dl' = [dl EXCEPT !.pc = "done"]
    /\ UNCHANGED <<today, inputFile, dirs, sumFile, ps, sm, hist>>
    /\ UNCHANGED <<cacheVars, fetchVars, toolVars>>

\* the date changes between runs
NextDay ==
    /\ NoStageRunning
    /\ today < MaxDay
    /\ today' = today + 1
    /\ UNCHANGED <<inputFile, logFile, dirs, sumFile, dl, ps, sm, hist>>
    /\ UNCHANGED <<cacheVars, fetchVars, toolVars>>

(***************************************************************************)
(* PaperParser: the selection from the job log and parse_papers.           *)
(***************************************************************************)
\* str.lower() on a character
Lower(c) == IF c = "A" THEN "a" ELSE c
LowerStr(s) == [k \in 1..Len(s) |-> Lower(s[k])]

\* str(path): the components joined by "/"
RECURSIVE PathString(_)
PathString(path) ==
    IF Len(path) = 1 THEN path[1]
    ELSE PathString(SubSeq(path, 1, Len(path) - 1)) \o <<"/">> \o path[Len(path)]

\* needle in haystack
IsSubstring(needle, haystack) ==
    \E k \in 0..(Len(haystack) - Len(needle)) :
        SubSeq(haystack, k + 1, k + Len(needle)) = needle

\* what --titles may be given: folder names, in any case
TitleArgs == { <<"a">>, <<"a", "_">>, <<"A", "_">>, <<"b">> }
TitleLists == SeqsUpTo(TitleArgs, MaxTitles) \ { <<>> }

\* what the parse and summarize commands may be given: --titles or --date
Selections ==
    { [by |-> "titles", titles |-> ts] : ts \in TitleLists }
        \cup { [by |-> "date", date |-> d] : d \in 0..MaxDay }

\* load_download_log().get('papers', {}): {} when the file is absent
ParserLoadLog(file) == IF file.exists THEN file.papers ELSE <<>>

\* get_papers_by_date
PapersByDate(log, date_str) ==
    SelectSeq(log, LAMBDA e : e.value.downloaded_at = date_str)

\* get_papers_by_titles
PapersByTitles(log, titles) ==
    SelectSeq(log, LAMBDA e :
        \E k \in DOMAIN titles :
            IsSubstring(LowerStr(titles[k]), LowerStr(PathString(e.value.directory))))

\* pdf_path.exists()
PdfExists(d, path) == DirOf(path) \in DOMAIN d /\ d[DirOf(path)].pdf.file

\* except Exception as e: print(...)
OnParseError(run) ==
    [run EXCEPT !.i = @ + 1, !.failed = @ \cup {run.i}]

\* One pass of the loop of parse_papers; extracted tells whether the
\* document-to-text call comes back with the text.
ParseOne(run, d, extracted) ==
    LET data == run.items[run.i].value
        name == DirOf(data.directory)
    IN  IF ~PdfExists(d, data.directory)
        THEN [run |-> [run EXCEPT !.i = @ + 1], dirs |-> d]
        ELSE LET tried == [run EXCEPT !.calls = Append(@, name)] IN
             IF extracted
             THEN [run |-> [tried EXCEPT !.i = @ + 1],
                   dirs |-> WriteFile(d, name, "md", MarkdownOf(d[name].pdf.of))]
             ELSE [run |-> OnParseError(tried), dirs |-> d]

\* run_parser(titles, date), up to the loop of parse_papers
ParseStart ==
    /\ NoStageRunning
    /\ \E sel \in Selections :
        LET log == ParserLoadLog(logFile)
            papers == IF sel.by = "titles" THEN PapersByTitles(log, sel.titles)
                      ELSE PapersByDate(log, sel.date)
        IN  ps' = IF papers = <<>>
                  THEN [PsIdle EXCEPT !.pc = "done", !.i = 1]
                  ELSE [PsIdle EXCEPT !.pc = "run", !.items = papers, !.i = 1]
    /\ dl' = DlIdle
    /\ sm' = SmIdle
    /\ hist' = NoPrevRun
    /\ UNCHANGED <<today, inputFile, logFile, dirs, sumFile>>
    /\ UNCHANGED <<cacheVars, fetchVars, toolVars>>

\* one paper of the selection
ParseItem ==
    /\ ps.pc = "run"
    /\ ps.i <= Len(ps.items)
    /\ \E extracted \in BOOLEAN :
        LET r == ParseOne(ps, dirs, extracted) IN
        /\ ps' = r.run
        /\ dirs' = r.dirs
    /\ UNCHANGED <<today, inputFile, logFile, sumFile, dl, sm, hist>>
    /\ UNCHANGED <<cacheVars, fetchVars, toolVars>>

\* parse_papers returns
ParseFinish ==
    /\ ps.pc = "run"
    /\ ps.i > Len(ps.items)
    /\ ps' = [ps EXCEPT !.pc = "done"]
    /\ UNCHANGED <<today, inputFile, logFile, dirs, sumFile, dl, sm, hist>>
    /\ UNCHANGED <<cacheVars, fetchVars, toolVars>>

(***************************************************************************)
(* PaperSummarizer.process_papers, one step per title.                     *)
(***************************************************************************)
\* what the summarizer may answer
SummaryTexts == {"s1", "s2"}

\* load_existing_summaries()["summaries"]
LoadExistingSummaries(file) == IF file.exists THEN file.summaries ELSE <<>>

\* the titles of the date branch: the folder names of the papers downloaded that day
TitlesByDate(log, date) ==
    LET hits == SelectSeq(log, LAMBDA e : e.value.downloaded_at = date)
    IN  [k \in 1..Len(hits) |-> Basename(hits[k].value.directory)]

\* get_paper_content(title): the markdown of papers/<title>, or None
GetPaperContent(d, title) ==
    IF title \in DOMAIN d /\ d[title].md.file THEN Ok(d[title].md) ELSE Ok(PyNone)

\* the skip test with the stored summaries ignored
NeverSummarized(summaries, title) == FALSE

\* if title in summaries_data["summaries"]
HasSummary(summaries, title) == DictHas(summaries, title)

\* except Exception as e: print(...)
OnSummaryError(run) ==
    [run EXCEPT !.i = @ + 1, !.failed = @ \cup {run.i}]

\* One pass of the loop of process_papers; answer is the summarizer's text, or
\* "error" when the call raises.
SummarizeOne(run, d, day, answer) ==
    LET title == run.titles[run.i] IN
    IF HasSummary(run.summaries, title)
    THEN [run EXCEPT !.i = @ + 1]
    ELSE LET content == GetPaperContent(d, title) IN
         IF content.v = PyNone
         THEN [run EXCEPT !.i = @ + 1]
         ELSE LET tried == [run EXCEPT !.calls = Append(@, title)] IN
              IF answer = "error"
              THEN OnSummaryError(tried)
              ELSE [tried EXCEPT !.i = @ + 1,
                       !.summaries = DictSet(@, title,
                                        [summary |-> answer, generated_at |-> day])]

\* process_papers(titles, date), up to the loop
SummarizeStart ==
    /\ NoStageRunning
    /\ \E sel \in Selections \cup { [by |-> "neither"] } :
        sm' = CASE sel.by = "neither" ->
                     [SmIdle EXCEPT !.pc = "error", !.error = "ValueError"]
                [] sel.by = "date" /\ ~logFile.exists ->
                     [SmIdle EXCEPT !.pc = "error", !.error = "FileNotFoundError",
                                    !.summaries = LoadExistingSummaries(sumFile),
                                    !.startSummaries = LoadExistingSummaries(sumFile)]
                [] OTHER ->
                     [SmIdle EXCEPT !.pc = "run", !.i = 1,
                                    !.titles = IF sel.by = "date"
                                               THEN TitlesByDate(logFile.papers, sel.date)
                                               ELSE sel.titles,
                                    !.summaries = LoadExistingSummaries(sumFile),
                                    !.startSummaries = LoadExistingSummaries(sumFile)]
    /\ dl' = DlIdle
    /\ ps' = PsIdle
    /\ hist' = NoPrevRun
    /\ UNCHANGED <<today, inputFile, logFile, dirs, sumFile>>
    /\ UNCHANGED <<cacheVars, fetchVars, toolVars>>

\* one title
SummarizeItem ==
    /\ sm.pc = "run"
    /\ sm.i <= Len(sm.titles)
    /\ \E answer \in SummaryTexts \cup {"error"} :
        sm' = SummarizeOne(sm, dirs, today, answer)
    /\ UNCHANGED <<today, inputFile, logFile, dirs, sumFile, dl, ps, hist>>
    /\ UNCHANGED <<cacheVars, fetchVars, toolVars>>

\* save_summaries(summaries_data); return summaries_data
SummarizeFinish ==
    /\ sm.pc = "run"
    /\ sm.i > Len(sm.titles)
    /\ sumFile' = SumFileOf(sm.summaries, today)
    /\ sm' = [sm EXCEPT !.pc = "done"]
    /\ UNCHANGED <<today, inputFile, logFile, dirs, dl, ps, hist>>
    /\ UNCHANGED <<cacheVars, fetchVars, toolVars>>

PipeNext ==
    \/ DownloadStart \/ DownloadItem \/ DownloadFinish
    \/ ParseStart \/ ParseItem \/ ParseFinish
    \/ SummarizeStart \/ SummarizeItem \/ SummarizeFinish
    \/ NextDay

(***************************************************************************)
(* PaperDownloader._extract_arxiv_id_from_link on its own: one reference   *)
(* string after another is resolved.                                       *)
(***************************************************************************)
MaxRefNum  == 2     \* the papers referred to
MaxVersion == 2     \* the largest version suffix (0: none)

\* The strings the function may be given: abs and pdf URLs and raw ids, with and
\* without a version suffix, and strings of no known form.
References ==
    { Ref(form, num, ver) : form \in {"abs", "pdf", "raw", "other"},
                            num \in 1..MaxRefNum, ver \in 0..MaxVersion }

NoCall == [called |-> FALSE]
NoResolutions == [prev |-> NoCall, last |-> NoCall]

ResolveInit ==
    /\ linkArg \in References
    /\ resolutions = NoResolutions

\* _extract_arxiv_id_from_link(link)
ResolveLink ==
    /\ resolutions' = [prev |-> resolutions.last,
                       last |-> [called |-> TRUE, link |-> linkArg,
                                 id |-> ExtractArxivIdFromLink(linkArg).v]]
    /\ UNCHANGED linkArg
    /\ UNCHANGED <<cacheVars, fetchVars, pipeVars, analyzeVars, exportVars, nameVars, cliVars>>

\* the caller turns to another reference
NextLink ==
    /\ linkArg' \in References \ {linkArg}
    /\ UNCHANGED resolutions
    /\ UNCHANGED <<cacheVars, fetchVars, pipeVars, analyzeVars, exportVars, nameVars, cliVars>>

ResolveNext == ResolveLink \/ NextLink

(***************************************************************************)
(* paper_analyzer: analyze_papers reads the papers of an input file, asks  *)
(* the relevance scorer about each, keeps the relevant ones and writes     *)
(* them to the output file.  Scores are whole steps of the scale 0..1.     *)
(***************************************************************************)
MaxBatch == 2       \* papers in the input file of analyze_papers
MaxScore == 2       \* the steps of the relevance scale

\* The input file: absent, or a document with a list of paper records.
AnalyzerInputs ==
    { Absent } \cup
    { JsonFile(papers) :
        papers \in SeqsUpTo({ [title |-> t, summary |-> "s"] : t \in {"a", "b"} }, MaxBatch) }

\* openai.chat.completions.create and json.loads of the answer: an exception of
\* the request or of the parsing, or an analysis, which is an object with the two
\* fields the filter reads or without one or both of them.
ScorerOutcomes ==
    { Raise("APIError"), Raise("JSONDecodeError") } \cup
    { Ok(analysis) : analysis \in
        [is_relevant : BOOLEAN, relevance_score : 0..MaxScore, key_insights : {"k"}]
            \cup [is_relevant : BOOLEAN, key_insights : {"k"}]
            \cup [relevance_score : 0..MaxScore, key_insights : {"k"}]
            \cup [key_insights : {"k"}] }

\* d.get(key, default)
PyGet(d, key, default) == IF key \in DOMAIN d THEN d[key] ELSE default

\* analyze_paper: {**paper, "analysis": analysis}, or None after any exception
AnalyzePaper(paper, outcome) ==
    IF outcome.ok
    THEN [title |-> paper.title, summary |-> paper.summary, analysis |-> outcome.v]
    ELSE PyNone

\* a threshold that the score has to exceed
ScoreExceeds(score, min_relevance_score) == score > min_relevance_score

\* ... >= min_relevance_score
ScoreReaches(score, min_relevance_score) == score >= min_relevance_score

\* filter_papers
FilterPapers(papers, min_relevance_score) ==
    SelectSeq(papers, LAMBDA paper :
        /\ PyGet(paper.analysis, "is_relevant", FALSE)
        /\ ScoreReaches(PyGet(paper.analysis, "relevance_score", 0), min_relevance_score))

\* no call was made yet, and there is no output file
AnalyzeInit ==
    /\ an = [pc |-> "idle"]
    /\ anFile = [exists |-> FALSE]

\* analyze_papers(input_file, output_file, min_relevance_score): open and json.load
AnalyzeStart ==
    /\ an.pc = "idle"
    /\ \E input_file \in AnalyzerInputs, min_relevance_score \in 0..MaxScore :
        an' = IF input_file = Absent
              THEN [pc |-> "error", error |-> "FileNotFoundError", results |-> <<>>]
              ELSE [pc |-> "run", papers |-> input_file.doc, i |-> 1,
                    analyzed_papers |-> <<>>, results |-> <<>>,
                    min_relevance_score |-> min_relevance_score]
    /\ UNCHANGED anFile
    /\ UNCHANGED <<cacheVars, fetchVars, pipeVars, resolveVars, exportVars, nameVars, cliVars>>

\* one pass of the loop over data['papers']
AnalyzeItem ==
    /\ an.pc = "run"
    /\ an.i <= Len(an.papers)
    /\ \E outcome \in ScorerOutcomes :
        LET analyzed_paper == AnalyzePaper(an.papers[an.i], outcome) IN
        an' = [an EXCEPT !.i = @ + 1,
                         !.results = Append(@, outcome),
                         !.analyzed_papers = IF analyzed_paper # PyNone
                                             THEN Append(@, analyzed_paper) ELSE @]
    /\ UNCHANGED anFile
    /\ UNCHANGED <<cacheVars, fetchVars, pipeVars, resolveVars, exportVars, nameVars, cliVars>>

\* filter_papers, and json.dump of the output document
AnalyzeFinish ==
    /\ an.pc = "run"
    /\ an.i > Len(an.papers)
    /\ LET filtered_papers == FilterPapers(an.analyzed_papers, an.min_relevance_score) IN
       anFile' = [exists |-> TRUE,
                  metadata |-> [paper_count |-> Len(filtered_papers),
                                min_relevance_score |-> an.min_relevance_score,
                                export_format_version |-> "1.0"],
                  papers |-> filtered_papers]
    /\ an' = [an EXCEPT !.pc = "done"]
    /\ UNCHANGED <<cacheVars, fetchVars, pipeVars, resolveVars, exportVars, nameVars, cliVars>>

AnalyzeNext == AnalyzeStart \/ AnalyzeItem \/ AnalyzeFinish

(***************************************************************************)
(* exporters.export_to_json, and json.load of the file it wrote.  A str is *)
(* a sequence of characters; the file holds the text json.dump produces,   *)
(* in which the characters of a str are escaped.                           *)
(***************************************************************************)
MaxExport == 2      \* papers given to export_to_json
MaxChars  == 2      \* characters of a title

\* The characters of the model: a letter, the double quote, the backslash.
Chars == {"a", "\"", "\\"}

\* a character written as it is
EscapeCharRaw(c) == <<c>>

\* json's encoder with ensure_ascii=False: '"' and '\' get a backslash before them
EscapeChar(c) == IF c \in {"\"", "\\"} THEN <<"\\", c>> ELSE <<c>>

RECURSIVE EscapeStr(_)
EscapeStr(s) == IF s = <<>> THEN <<>> ELSE EscapeChar(Head(s)) \o EscapeStr(Tail(s))

\* json's decoder on the characters between the quotes of a string
RECURSIVE UnescapeStr(_)
UnescapeStr(chars) ==
    IF chars = <<>> THEN Ok(<<>>)
    ELSE IF Head(chars) = "\""
    THEN Raise("JSONDecodeError")
    ELSE IF Head(chars) = "\\"
    THEN IF Len(chars) >= 2 /\ chars[2] \in {"\"", "\\"}
         THEN LET rest == UnescapeStr(SubSeq(chars, 3, Len(chars))) IN
              IF rest.ok THEN Ok(<<chars[2]>> \o rest.v) ELSE rest
         ELSE Raise("JSONDecodeError")
    ELSE LET rest == UnescapeStr(Tail(chars)) IN
         IF rest.ok THEN Ok(<<Head(chars)>> \o rest.v) ELSE rest

\* json.dump(value, f, indent=2, ensure_ascii=False): the text written, as a tree
\* of its parts
RECURSIVE JsonDump(_)
JsonDump(value) ==
    CASE value.t = "str" -> [text |-> "string", chars |-> EscapeStr(value.s)]
      [] value.t = "num" -> [text |-> "number", n |-> value.n]
      [] value.t = "arr" ->
            [text |-> "array", items |-> [i \in DOMAIN value.a |-> JsonDump(value.a[i])]]
      [] value.t = "obj" ->
            [text |-> "object", members |-> [k \in DOMAIN value.m |-> JsonDump(value.m[k])]]

\* json.load(f): the value the text parses to
RECURSIVE JsonParse(_)
JsonParse(text) ==
    CASE text.text = "string" ->
            LET s == UnescapeStr(text.chars) IN IF s.ok THEN Ok(JStr(s.v)) ELSE s
      [] text.text = "number" -> Ok(JNum(text.n))
      [] text.text = "array" ->
            LET items == [i \in DOMAIN text.items |-> JsonParse(text.items[i])] IN
            IF \A i \in DOMAIN items : items[i].ok
            THEN Ok(JArr([i \in DOMAIN items |-> items[i].v]))
            ELSE Raise("JSONDecodeError")
      [] text.text = "object" ->
            LET members == [k \in DOMAIN text.members |-> JsonParse(text.members[k])] IN
            IF \A k \in DOMAIN members : members[k].ok
            THEN Ok(JObj([k \in DOMAIN members |-> members[k].v]))
            ELSE Raise("JSONDecodeError")

\* The paper records given to the exporter: dicts of str and list of str.
ExportPapers ==
    { JObj([title |-> JStr(s), authors |-> JArr(<<JStr(<<"a">>)>>)]) :
        s \in SeqsUpTo(Chars, MaxChars) }

\* if not output_file.endswith('.json'): output_file += '.json'
ExportFileName(output_file) ==
    IF output_file[Len(output_file)] = ".json" THEN output_file
    ELSE Append(output_file, ".json")

\* The arguments of a call: the papers, and a file name with or without the
\* extension; no file was written yet.
ExportInit ==
    /\ ex \in [pc : {"idle"}, papers : SeqsUpTo(ExportPapers, MaxExport),
               output_file : { <<"out">>, <<"out", ".json">> }]
    /\ exFile = [exists |-> FALSE]

\* export_to_json(papers, output_file)
ExportToJson ==
    /\ ex.pc = "idle"
    /\ exFile' =
        [exists |-> TRUE, name |-> ExportFileName(ex.output_file),
         text |-> JsonDump(JObj(
             [metadata |-> JObj([exported_at |-> JStr(<<"a">>),
                                 paper_count |-> JNum(Len(ex.papers)),
                                 export_format_version |-> JStr(<<"a">>)]),
              papers |-> JArr(ex.papers)]))]
    /\ ex' = [ex EXCEPT !.pc = "exported"]
    /\ UNCHANGED <<cacheVars, fetchVars, pipeVars, resolveVars, analyzeVars, nameVars, cliVars>>

\* the file is read back: open(input_file, 'r') and json.load(f)
ReadBack ==
    /\ ex.pc = "exported"
    /\ ex' = [pc |-> "read", papers |-> ex.papers, output_file |-> ex.output_file,
              data |-> JsonParse(exFile.text)]
    /\ UNCHANGED exFile
    /\ UNCHANGED <<cacheVars, fetchVars, pipeVars, resolveVars, analyzeVars, nameVars, cliVars>>

ExportNext == ExportToJson \/ ReadBack

(***************************************************************************)
(* PaperDownloader._create_paper_dir on its own: the directory name of one *)
(* title after another, short titles and titles around DIR_NAME_MAX        *)
(* characters.                                                             *)
(***************************************************************************)
MaxAffix == 2       \* characters before and after the filling of a title

\* n letters
Filling(n) == [i \in 1..n |-> "a"]

\* The titles: some characters, a filling that brings the length near the cut,
\* some more characters.
Titles ==
    { before \o Filling(n) \o after :
        before \in SeqsUpTo({"a", " ", "/", "\t"}, MaxAffix),
        after \in SeqsUpTo({"a", " ", "/", "\t"}, MaxAffix),
        n \in {0, DIR_NAME_MAX - 2, DIR_NAME_MAX - 1, DIR_NAME_MAX} }


NameInit ==
    /\ titleArg \in Titles
    /\ created = [called |-> FALSE]

\* _create_paper_dir(paper): the name of the directory made
CreatePaperDir ==
    /\ created' = [called |-> TRUE, title |-> titleArg, name |-> DirName(titleArg)]
    /\ UNCHANGED titleArg
    /\ UNCHANGED <<cacheVars, fetchVars, pipeVars, resolveVars, analyzeVars, exportVars, cliVars>>

\* the next paper
\* the directory name is given as the title of another call
NameAsTitle ==
    /\ created.called
    /\ titleArg' = created.name
    /\ UNCHANGED created
    /\ UNCHANGED <<cacheVars, fetchVars, pipeVars, resolveVars, analyzeVars, exportVars, cliVars>>

NameNext == CreatePaperDir \/ NameAsTitle

(***************************************************************************)
(* The process is terminated while it saves a file.  Both saves are        *)
(* open(file, 'w'), which empties the file, followed by json.dump, which   *)
(* writes the document piece by piece: a process that is killed in between *)
(* leaves a prefix of the document.                                        *)
(***************************************************************************)
\* the job log file holding a proper prefix of a document
TruncatedLog == [exists |-> TRUE, truncated |-> TRUE]

\* What a file holds when its writer is killed after open(file, 'w'): all of the
\* document when the kill comes after the last piece was written, a proper prefix
\* of it, which is not JSON, otherwise.
KilledWrite(document, prefix, whole) == IF whole THEN document ELSE prefix

\* CacheManager.set(key, value) killed during its save, on both variants; the sets
\* the process had made are no longer followed
CacheSetKilled ==
    /\ \E key \in CacheKeys, value \in Payloads, whole \in BOOLEAN :
        LET p == PkgSet(cacheFile, key, value, now)
            q == TopSet(topFile, key, value, now)
        IN  /\ p.res.ok /\ q.res.ok
            /\ cacheFile' = KilledWrite(p.file, NotJson, whole)
            /\ topFile' = KilledWrite(q.file, NotJson, whole)
            /\ cacheOp' = [op |-> "killed", key |-> key, value |-> value, at |-> now,
                           before |-> cacheFile, intended |-> p.file,
                           topBefore |-> topFile, topIntended |-> q.file]
    /\ lastSet' = [k \in CacheKeys |-> NoSet]
    /\ UNCHANGED <<now, cacheDuration>>
    /\ UNCHANGED <<fetchVars, pipeVars, toolVars>>

\* download_papers killed during _save_download_log
SaveLogKilled ==
    /\ dl.pc = "run"
    /\ dl.i > Len(dl.papers)
    /\ \E whole \in BOOLEAN :
        logFile' = KilledWrite(SaveDownloadLog(logFile, dl.log), TruncatedLog, whole)
    /\ dl' = [dl EXCEPT !.pc = "killed"]
    /\ UNCHANGED <<today, inputFile, dirs, sumFile, ps, sm, hist>>
    /\ UNCHANGED <<cacheVars, fetchVars, toolVars>>

(***************************************************************************)
(* The command line: run_fetcher with the cache in front of the client,    *)
(* and the four stage commands with the exit status of their process.      *)
(***************************************************************************)
MaxCliClock == 4        \* the clock reaches the second date
DaysArgs == {-1, 0, 30, 31}         \* --days has type=int and default=7
CliSelections == {"titles", "date", "neither"}     \* --titles / --date / none of them
FileStates == {"absent", "not_json", "ok"}
\* what ArxivClient.fetch_papers gives run_fetcher: a list or its wrapped error
ClientOutcomes == {Ok(JArr(<<>>)), Ok(JArr(<<JStr("v1")>>)), Raise(WrappedError)}
CliCacheFiles == {Absent, NotJson, NotUtf8, JsonFile(EmptyDict), JsonFile(JArr(<<>>))}
DaysError == "Error: Days must be between 1 and 30"

\* validate_days: 1 <= days <= 30
ValidateDays(days) == 1 <= days /\ days <= 30
\* validate_days accepting the value 0 as well
ValidateDaysFromZero(days) == 0 <= days /\ days <= 30

Digit(d) == <<"0", "1", "2", "3", "4", "5", "6", "7", "8", "9">>[d + 1]
\* f"{days}" of a positive int
RECURSIVE DaysText(_)
DaysText(n) == IF n < 10 THEN <<Digit(n)>> ELSE DaysText(n \div 10) \o <<Digit(n % 10)>>
\* datetime.now().strftime('%Y-%m-%d'): the dates of the model are 2024-01-01 and after
DateText(day) ==
    <<"2", "0", "2", "4", "-", "0", "1", "-", Digit((day + 1) \div 10), Digit((day + 1) % 10)>>
\* get_cache_key without the date in the key
GetCacheKeyNoDate(days, t) == <<"p", "a", "p", "e", "r", "s", "_">> \o DaysText(days)
\* get_cache_key: f"papers_{days}_{date}"
GetCacheKey(days, t) ==
    <<"p", "a", "p", "e", "r", "s", "_">> \o DaysText(days) \o <<"_">> \o DateText(DayOf(t))

NoCommand == [command |-> "none"]
\* the numbers of days the calls of the model fetch for
FetchDays == {d \in 1..30 : d \in DaysArgs \/ d = 7}
NoFetched == [d \in FetchDays |-> [stored |-> FALSE]]

CliInit ==
    /\ now = 0
    /\ cacheDuration \in 1..MaxDuration
    /\ cacheFile \in CliCacheFiles
    /\ topFile = Absent
    /\ cacheOp = NoOp
    /\ lastSet = [k \in CacheKeys |-> NoSet]
    /\ cli = NoCommand
    /\ fetched = NoFetched

\* a miss that stores the empty list when the fetch has raised
StoreFetchedAlways(file, key, outcome, t) ==
    PkgSet(file, key, IF outcome.ok THEN outcome.v ELSE JArr(<<>>), t)

\* papers = arxiv_client.fetch_papers(...); cache_manager.set(cache_key, papers):
\* an exception of fetch_papers leaves the try block before the set
StoreFetched(file, key, outcome, t) ==
    IF outcome.ok THEN PkgSet(file, key, outcome.v, t)
    ELSE [res |-> Ok(PyNone), file |-> file]

\* run_fetcher(days): `days or 7`, validation, cache get, fetch and cache set on a
\* miss; an exception of the try block is printed and the process exits 1
RunFetcher ==
    /\ \E days \in DaysArgs, outcome \in ClientOutcomes :
        LET actual_days == IF days = 0 THEN 7 ELSE days IN
        IF ~ValidateDays(actual_days)
        THEN /\ cli' = [command |-> "fetch", days |-> days, exit |-> 1,
                        printed |-> DaysError, requests |-> 0, cache_calls |-> 0]
             /\ UNCHANGED <<cacheFile, fetched>>
        ELSE LET cache_key   == GetCacheKey(actual_days, now)
                 cached_data == PkgGet(cacheFile, cache_key, now, cacheDuration)
                 miss   == cached_data.ok /\ cached_data.v = PyNone
                 stored == IF miss
                           THEN StoreFetched(cacheFile, cache_key, outcome, now)
                           ELSE [res |-> Ok(PyNone), file |-> cacheFile]
                 papers == IF ~cached_data.ok THEN cached_data
                           ELSE IF ~miss THEN cached_data
                           ELSE IF ~outcome.ok THEN outcome
                           ELSE IF ~stored.res.ok THEN stored.res
                           ELSE outcome
             IN  /\ cli' = [command |-> "fetch", days |-> days, actual_days |-> actual_days,
                            key |-> cache_key, at |-> now, date |-> DayOf(now),
                            prior |-> fetched[actual_days],
                            exit |-> IF papers.ok THEN 0 ELSE 1,
                            printed |-> IF papers.ok THEN "papers" ELSE "Error",
                            papers |-> papers,
                            requests |-> IF miss THEN 1 ELSE 0,
                            cache_calls |-> IF miss /\ outcome.ok THEN 2 ELSE 1]
                 /\ cacheFile' = stored.file
                 /\ fetched' = IF miss /\ outcome.ok /\ stored.res.ok
                               THEN [fetched EXCEPT ![actual_days] =
                                        [stored |-> TRUE, at |-> now, date |-> DayOf(now),
                                         key |-> cache_key, papers |-> outcome.v]]
                               ELSE fetched
    /\ UNCHANGED <<now, cacheDuration, topFile, cacheOp, lastSet>>
    /\ UNCHANGED <<fetchVars, pipeVars, resolveVars, analyzeVars, exportVars, nameVars>>

\* What goes wrong in a stage as a whole, and what the stage's function hands to the
\* handler of the command: Raise(e), or Ok(None) when the function returned.
\* analyze_papers: the handler of its try block prints and raises again
AnalyzeStage(input_file) ==
    LET failure == CASE input_file = "absent"   -> "FileNotFoundError"
                     [] input_file = "not_json" -> "JSONDecodeError"
                     [] OTHER                   -> "none"
    IN  [failure |-> failure,
         result |-> IF failure = "none" THEN Ok(PyNone) ELSE Raise(failure)]
\* PaperDownloader(output_dir).download_papers(input_file): the log is loaded before
\* the try block, and the handler of the try block raises again
DownloadStage(input_file, log_file) ==
    LET failure == CASE log_file = "not_json"   -> "JSONDecodeError"
                     [] input_file = "absent"   -> "FileNotFoundError"
                     [] input_file = "not_json" -> "JSONDecodeError"
                     [] OTHER                   -> "none"
    IN  [failure |-> failure,
         result |-> IF failure = "none" THEN Ok(PyNone) ELSE Raise(failure)]
\* paper_parser.run_parser: PaperParser() and the loading of the log are inside
\* `except Exception as e: print(f"Error: {str(e)}")`
ParserStage(llama_key, log_file) ==
    LET failure == CASE ~llama_key              -> "ValueError"
                     [] log_file = "not_json"   -> "JSONDecodeError"
                     [] OTHER                   -> "none"
    IN  [failure |-> failure, result |-> Ok(PyNone)]
\* PaperSummarizer().process_papers(titles, date)
SummarizerStage(selection, log_file) ==
    LET failure == CASE selection = "neither"                        -> "ValueError"
                     [] selection = "date" /\ log_file = "absent"    -> "FileNotFoundError"
                     [] selection = "date" /\ log_file = "not_json"  -> "JSONDecodeError"
                     [] OTHER                                        -> "none"
    IN  [failure |-> failure,
         result |-> IF failure = "none" THEN Ok(PyNone) ELSE Raise(failure)]

\* The handler every stage command has:
\*   try: <stage>  except Exception as e: print(f"Error: {str(e)}"); sys.exit(1)
CommandHandler(command, run) ==
    [command |-> command, failure |-> run.failure,
     printed |-> IF run.failure = "none" THEN "progress" ELSE "Error",
     exit |-> IF run.result.ok THEN 0 ELSE 1]

RunAnalyzer ==
    /\ \E input_file \in FileStates : cli' = CommandHandler("analyze", AnalyzeStage(input_file))
    /\ UNCHANGED <<cacheVars, fetched>>
    /\ UNCHANGED <<fetchVars, pipeVars, resolveVars, analyzeVars, exportVars, nameVars>>

RunDownloader ==
    /\ \E input_file \in FileStates, log_file \in FileStates :
        cli' = CommandHandler("download", DownloadStage(input_file, log_file))
    /\ UNCHANGED <<cacheVars, fetched>>
    /\ UNCHANGED <<fetchVars, pipeVars, resolveVars, analyzeVars, exportVars, nameVars>>

RunParser ==
    /\ \E llama_key \in BOOLEAN, log_file \in FileStates :
        cli' = CommandHandler("parse", ParserStage(llama_key, log_file))
    /\ UNCHANGED <<cacheVars, fetched>>
    /\ UNCHANGED <<fetchVars, pipeVars, resolveVars, analyzeVars, exportVars, nameVars>>

RunSummarizer ==
    /\ \E selection \in CliSelections, log_file \in FileStates :
        cli' = CommandHandler("summarize", SummarizerStage(selection, log_file))
    /\ UNCHANGED <<cacheVars, fetched>>
    /\ UNCHANGED <<fetchVars, pipeVars, resolveVars, analyzeVars, exportVars, nameVars>>

CliTick ==
    /\ now < MaxCliClock
    /\ now' = now + 1
    /\ UNCHANGED <<cacheDuration, cacheFile, topFile, cacheOp, lastSet, cli, fetched>>
    /\ UNCHANGED <<fetchVars, pipeVars, resolveVars, analyzeVars, exportVars, nameVars>>

CliNext ==
    \/ RunFetcher \/ CliTick
    \/ RunAnalyzer \/ RunDownloader \/ RunParser \/ RunSummarizer

(***************************************************************************)
(* The specifications.  Each leaves the other parts in their initial state.*)
(***************************************************************************)
CacheRest ==
    /\ now = 0 /\ cacheDuration = 0 /\ cacheFile = Absent /\ topFile = Absent
    /\ cacheOp = NoOp /\ lastSet = [k \in CacheKeys |-> NoSet]
FetchRest ==
    /\ clock = 0 /\ last_request_time = 0 /\ fetch = FetchIdle
    /\ requests = NoRequests /\ fetchOut = NoFetchOut
PipeRest ==
    /\ today = 0 /\ inputFile = <<>> /\ logFile = NoLogFile /\ dirs = <<>>
    /\ sumFile = NoSumFile /\ dl = DlIdle /\ ps = PsIdle /\ sm = SmIdle
    /\ hist = NoPrevRun
ResolveRest ==
    /\ linkArg = Ref("other", 1, 0) /\ resolutions = NoResolutions
ExportRest ==
    /\ ex = [pc |-> "idle", papers |-> <<>>, output_file |-> <<"out">>]
    /\ exFile = [exists |-> FALSE]
NameRest ==
    /\ titleArg = <<>>
    /\ created = [called |-> FALSE]
CliRest ==
    /\ cli = NoCommand
    /\ fetched = NoFetched
ToolRest == ResolveRest /\ AnalyzeInit /\ ExportRest /\ NameRest /\ CliRest

Init == PipeInit /\ CacheRest /\ FetchRest /\ ToolRest
Next == PipeNext
Spec == Init /\ [][Next]_vars

CacheSpecInit == CacheInit /\ FetchRest /\ PipeRest /\ ToolRest
CacheSpec == CacheSpecInit /\ [][CacheNext]_vars

FetchSpecInit == FetchInit /\ CacheRest /\ PipeRest /\ ToolRest
FetchSpec == FetchSpecInit /\ [][FetchNext]_vars

ResolveSpecInit ==
    ResolveInit /\ CacheRest /\ FetchRest /\ PipeRest /\ AnalyzeInit /\ ExportRest /\ NameRest /\ CliRest
ResolveSpec == ResolveSpecInit /\ [][ResolveNext]_vars

AnalyzeSpecInit ==
    AnalyzeInit /\ CacheRest /\ FetchRest /\ PipeRest /\ ResolveRest /\ ExportRest /\ NameRest /\ CliRest
AnalyzeSpec == AnalyzeSpecInit /\ [][AnalyzeNext]_vars

ExportSpecInit ==
    ExportInit /\ CacheRest /\ FetchRest /\ PipeRest /\ ResolveRest /\ AnalyzeInit /\ NameRest /\ CliRest
ExportSpec == ExportSpecInit /\ [][ExportNext]_vars

NameSpecInit ==
    NameInit /\ CacheRest /\ FetchRest /\ PipeRest /\ ResolveRest /\ AnalyzeInit /\ ExportRest /\ CliRest
NameSpec == NameSpecInit /\ [][NameNext]_vars

CliSpecInit ==
    CliInit /\ FetchRest /\ PipeRest /\ ResolveRest /\ AnalyzeInit /\ ExportRest /\ NameRest
CliSpec == CliSpecInit /\ [][CliNext]_vars

\* The pipeline run again and again over an input whose records all have a title
\* and a derivable identifier.  Every run that has started goes on to its end;
\* each command is started again and again, parse and summarize with --date; and an
\* item that is attempted again and again is not failed by its operation forever.
ResumableInputs ==
    { f \in InputFiles :
        /\ f # <<>>
        /\ \A k \in DOMAIN f : "title" \in DOMAIN f[k] /\ GetArxivId(f[k]).ok }
ResumeInit ==
    /\ PipeInit /\ CacheRest /\ FetchRest /\ ToolRest
    /\ inputFile \in ResumableInputs
\* run_parser(date=<today>) and process_papers(date=<today>)
ParseStartToday == ParseStart /\ ps'.items = PapersByDate(ParserLoadLog(logFile), today)
SummarizeStartToday ==
    /\ SummarizeStart
    /\ sm'.pc = "run"
    /\ sm'.titles = TitlesByDate(LoadDownloadLog(logFile), today)
ResumeNext ==
    \/ DownloadStart \/ DownloadItem \/ DownloadFinish
    \/ ParseStartToday \/ ParseItem \/ ParseFinish
    \/ SummarizeStartToday \/ SummarizeItem \/ SummarizeFinish
ResumeFairness ==
    /\ WF_vars(DownloadItem) /\ WF_vars(DownloadFinish)
    /\ WF_vars(ParseItem) /\ WF_vars(ParseFinish)
    /\ WF_vars(SummarizeItem) /\ WF_vars(SummarizeFinish)
    /\ SF_vars(DownloadStart) /\ SF_vars(ParseStartToday) /\ SF_vars(SummarizeStartToday)
    /\ \A k \in 1..MaxPapers :
        /\ SF_vars(DownloadItem /\ dl.i = k /\ dl' = DownloadOne(dl, dirs, today, TRUE).run)
        /\ SF_vars(ParseItem /\ ps.i = k /\ ps' = ParseOne(ps, dirs, TRUE).run)
        /\ SF_vars(SummarizeItem /\ sm.i = k /\ sm'.failed = sm.failed)
ResumeSpec == ResumeInit /\ [][ResumeNext]_vars /\ ResumeFairness

\* A process that makes cache calls and is killed in a save, and a download run
\* over an input file without papers that has come to its save.
KillInit ==
    /\ CacheInit /\ FetchRest /\ ToolRest
    /\ today = 0 /\ inputFile = <<>> /\ logFile = NoLogFile /\ dirs = <<>>
    /\ sumFile = NoSumFile /\ ps = PsIdle /\ sm = SmIdle /\ hist = NoPrevRun
    /\ dl = [DlIdle EXCEPT !.pc = "run", !.i = 1]

KillNext == CacheGet \/ CacheSet \/ CacheTick \/ CacheSetKilled \/ SaveLogKilled

KillSpec == KillInit /\ [][KillNext]_vars

(***************************************************************************)
(* Claims about the cache (CacheSpec).                                     *)
(***************************************************************************)

\* C3: after a set(K, V) that returned, get(K) returns V at every clock time less
\* than cache_duration seconds after the set, and None at every clock time
\* cache_duration seconds or more after it (no other set of K in between).
C3_SetThenGet ==
    (cacheOp.op = "get" /\ lastSet[cacheOp.key].set) =>
        LET s == lastSet[cacheOp.key] IN
        cacheOp.pkg = IF cacheOp.at - s.at < cacheDuration THEN Ok(s.value) ELSE Ok(PyNone)

\* a get made exactly cache_duration seconds after the set of its key: expired
C3_Witness ==
    /\ cacheOp.op = "get"
    /\ lastSet[cacheOp.key].set
    /\ cacheDuration > 0
    /\ cacheOp.at - lastSet[cacheOp.key].at = cacheDuration
    /\ cacheOp.pkg = Ok(PyNone)

\* The contents the cache file may have that are not a table with a well-formed
\* entry for the key: undecodable bytes, text that is not JSON, JSON that is not an
\* object, an entry that is not an object or lacks 'timestamp' or 'data'.
CorruptFor(file, key) ==
    \/ file.kind \in {"bytes", "text"}
    \/ /\ file.kind = "json"
       /\ \/ file.doc.t # "obj"
          \/ /\ key \in DOMAIN file.doc.m
             /\ \/ file.doc.m[key].t # "obj"
                \/ {"timestamp", "data"} \ DOMAIN file.doc.m[key].m # {}

\* C4: whatever the cache file holds, get returns None and never raises.
C4_GetNeverRaises ==
    (cacheOp.op = "get" /\ CorruptFor(cacheOp.before, cacheOp.key)) =>
        cacheOp.pkg = Ok(PyNone)

\* The cache file is text that is not JSON, or is JSON whose top level is not an
\* object.
CorruptTable(file) ==
    \/ file.kind = "text"
    \/ file.kind = "json" /\ file.doc.t # "obj"

\* C5: set(K, V) on a corrupt cache file completes without raising and leaves a
\* table in which get(K) at once returns V.
C5_SetToleratesCorruption ==
    (cacheOp.op = "set" /\ cacheOp.at = now /\ cacheDuration > 0
        /\ CorruptTable(cacheOp.before)) =>
        /\ cacheOp.pkg.ok
        /\ cacheFile = JsonFile(JObj([k \in {cacheOp.key} |-> CacheEntry(cacheOp.at, cacheOp.value)]))
        /\ PkgGet(cacheFile, cacheOp.key, now, cacheDuration) = Ok(cacheOp.value)

(***************************************************************************)
(* Claims about ArxivClient.fetch_papers (FetchSpec).                      *)
(***************************************************************************)
Returned(e) == \E k \in DOMAIN fetchOut.papers : fetchOut.papers[k] = e

\* C6: of the records a fetch_papers call received, one published windowDays + 1
\* days before today is not returned, one published windowDays days before today
\* is returned, and one published today is returned, at any time of day.
C6_WindowInclusive ==
    fetchOut.status = "returned" =>
        \A e \in fetchOut.seen :
            LET d == e.published.day
                day == DayOf(fetchOut.end_date)
            IN  /\ (d = day - fetchOut.days - 1) => ~Returned(e)
                /\ (d = day - fetchOut.days) => Returned(e)
                /\ (d = day) => Returned(e)

\* C7: when the request or the parsing for any category filter fails, the call
\* ends with an error and returns no records, whatever it had collected before.
C7_AllOrNothing ==
    (fetchOut.status # "none" /\ fetchOut.failure # "none") =>
        /\ fetchOut.status = "raised"
        /\ fetchOut.papers = <<>>
        /\ fetch.pc = "idle"

\* a call that raised after it had collected records that were in the window
C7_Witness ==
    /\ fetchOut.status = "raised"
    /\ fetchOut.collected # <<>>

\* C8: every error raised inside fetch_papers reaches the caller as the wrapped
\* error 'Error fetching papers from arXiv: ...'.
C8_AlwaysWrapped ==
    fetchOut.status = "raised" => fetchOut.error = WrappedError

\* C9: any two consecutive outbound requests of a client are at least API_DELAY
\* seconds apart.
C9_RequestsSpaced ==
    requests.prev >= 0 => requests.last - requests.prev >= API_DELAY

\* C18: no two records of the sequence a fetch_papers call returns have the same
\* link, also when several category filters of the call found the same paper.
C18_NoDuplicateLinks ==
    fetchOut.status = "returned" =>
        \A j, k \in DOMAIN fetchOut.papers :
            fetchOut.papers[j].link = fetchOut.papers[k].link => j = k

\* C27: a fetch_papers call returns at most max_results records (MaxEntries, the
\* cap of each response), for any number of category filters.
C27_AtMostMaxResults ==
    fetchOut.status = "returned" => Len(fetchOut.papers) <= MaxEntries

(***************************************************************************)
(* Claims about the download, parse and summarize stages (Spec).           *)
(***************************************************************************)
\* the canonical ids the records of an input file resolve to
ResolvedIds(papers) ==
    { GetArxivId(papers[k]).v : k \in { j \in DOMAIN papers : GetArxivId(papers[j]).ok } }

EntriesOf(d, key) == { k \in DOMAIN d : d[k].key = key }

\* a download run that followed a download run on the same input file, in which
\* every download succeeded
SecondRun == dl.pc \in {"done", "error"} /\ hist.outcome # "none" /\ hist.allOk

C2_NoResummarize ==
    \A k \in DOMAIN sm.startSummaries :
        LET e == sm.startSummaries[k] IN
        /\ \A c \in DOMAIN sm.calls : sm.calls[c] # e.key
        /\ DictHas(sm.summaries, e.key) /\ DictGet(sm.summaries, e.key) = e
        /\ sumFile.exists
        /\ DictHas(sumFile.summaries, e.key) /\ DictGet(sumFile.summaries, e.key) = e

\* a finished invocation that was asked for a title already summarized
C2_Witness ==
    /\ sm.pc = "done"
    /\ \E k \in DOMAIN sm.titles : DictHas(sm.startSummaries, sm.titles[k])

\* A batch run: never ended by the failure of an item's operation, past every
\* failed item while it runs, and past every item when it has finished.
BatchContinues(run, n) ==
    /\ run.pc = "run"   => \A k \in run.failed : k < run.i
    /\ run.pc = "error" => run.i \notin run.failed
    /\ run.pc = "done"  => run.i = n + 1

\* C10: in download_papers, parse_papers and process_papers the failure of one
\* item's download, extraction or summarization does not end the batch: the loop
\* goes on to the next item, and a run that finishes has passed every item and
\* has saved its log.
C10_FailureDoesNotAbort ==
    /\ BatchContinues(dl, Len(dl.papers))
    /\ BatchContinues(ps, Len(ps.items))
    /\ BatchContinues(sm, Len(sm.titles))
    /\ dl.pc = "done" => logFile = LogFileOf(dl.log)
    /\ sm.pc = "done" => sumFile.exists /\ sumFile.summaries = sm.summaries

\* a finished download run whose first download failed and whose second was made
C10_Witness ==
    /\ dl.pc = "done"
    /\ 1 \in dl.failed
    /\ Len(dl.calls) >= 2
    /\ DictHas(logFile.papers, dl.calls[2])

\* no candidate field of the record matches a pattern, and it has no arxiv_id field
NoIdDerivable(paper) ==
    /\ \A k \in DOMAIN PossibleUrls(paper) :
           ExtractArxivIdFromLink(PossibleUrls(paper)[k]).v = PyNone
    /\ "arxiv_id" \notin DOMAIN paper

\* the record at position k of the running download has been dealt with
Handled(k) == k < dl.i \/ (k = dl.i /\ dl.pc = "error")

\* C11: every record without a derivable identifier, whatever its other fields,
\* makes the resolution fail with the ValueError that names its fields, and
\* download_papers skips it and goes on with the rest of the batch.
C11_UnresolvableSkipped ==
    \A k \in DOMAIN dl.papers :
        (Handled(k) /\ NoIdDerivable(dl.papers[k])) =>
            /\ GetArxivId(dl.papers[k]) = Raise("ValueError")
            /\ k \in dl.skipped
            /\ dl.pc # "error"

(***************************************************************************)
(* Claims about identifier resolution (ResolveSpec).                       *)
(***************************************************************************)
\* C12: a reference of a known form resolves to the capture of the first pattern
\* that matches it, in the order abs with version, abs, pdf with version, pdf, raw
\* with version, raw: the id with its version suffix when the reference has one
\* (abs/2401.12345v2 gives 2401.12345v2), the bare id when it has none (2401.12345
\* gives 2401.12345), and None for a string of no known form.
C12_FirstPatternWins ==
    resolutions.last.called =>
        LET l == resolutions.last.link
            id == resolutions.last.id
        IN  /\ l.form \in {"abs", "pdf", "raw"} => id = [num |-> l.num, ver |-> l.ver]
            /\ l.form = "other" => id = PyNone
            /\ l.form \in {"abs", "pdf", "raw"} =>
                   \E k \in DOMAIN Patterns :
                       /\ Matches(Patterns[k], l)
                       /\ \A h \in 1..(k - 1) : ~Matches(Patterns[h], l)
                       /\ id = Capture(Patterns[k], l)

\* an abs URL with a version suffix has been resolved, and kept the suffix
C12_Witness ==
    /\ resolutions.last.called
    /\ resolutions.last.link = Ref("abs", 1, 2)
    /\ resolutions.last.id = [num |-> 1, ver |-> 2]

\* the last two calls were given references of a known form to the same paper
SamePaperTwice ==
    /\ resolutions.prev.called /\ resolutions.last.called
    /\ resolutions.prev.link.form \in {"abs", "pdf", "raw"}
    /\ resolutions.last.link.form \in {"abs", "pdf", "raw"}
    /\ resolutions.prev.link.num = resolutions.last.link.num

\* C13 as stated: any two references to the same paper, of whatever form and with
\* or without a version suffix, resolve to the same identifier (so that a log
\* keyed by the identifier holds one entry for the paper).
C13_OneIdPerPaper ==
    SamePaperTwice => resolutions.prev.id = resolutions.last.id

\* C13, amended: any two references to the same version of a paper (the same
\* version suffix, or none on both) resolve to the same identifier whatever their
\* forms, and two references that differ in the version suffix resolve to
\* different identifiers.
C13_OneIdPerVersion ==
    SamePaperTwice =>
        (resolutions.prev.id = resolutions.last.id
            <=> resolutions.prev.link.ver = resolutions.last.link.ver)

\* an abs URL and a raw id of the same version of a paper, resolved one after the
\* other to the same identifier
C13_Witness ==
    /\ SamePaperTwice
    /\ resolutions.prev.link = Ref("abs", 1, 2)
    /\ resolutions.last.link = Ref("raw", 1, 2)
    /\ resolutions.prev.id = resolutions.last.id

(***************************************************************************)
(* Claims about the job log and the files of the stages (Spec).            *)
(***************************************************************************)
\* C14: while the job log file is absent, every stage that reads it runs as on an
\* empty log: the download starts from no entries, the parse selects no paper,
\* and no stage raises an error because the file is not there.
C14_AbsentLogIsEmpty ==
    ~logFile.exists =>
        /\ dl.startLog = <<>>
        /\ ps.items = <<>> /\ ps.error = "none"
        /\ sm.error # "FileNotFoundError"

\* C15: in every state, the directory recorded in each entry of the persisted job
\* log exists and holds the PDF and the metadata of the paper with the entry's
\* id, also after later downloads into a directory of the same sanitized name.
C15_LoggedArtifactsOnDisk ==
    logFile.exists =>
        \A k \in DOMAIN logFile.papers :
            LET e == logFile.papers[k]
                name == DirOf(e.value.directory)
            IN  /\ name \in DOMAIN dirs
                /\ dirs[name].pdf = PdfOf(e.key)
                /\ dirs[name].meta.file
                /\ GetArxivId(dirs[name].meta.paper) = Ok(e.key)

\* every entry of the table before is in the table after, unchanged
EntriesKept(before, after) ==
    \A k \in DOMAIN before :
        /\ DictHas(after, before[k].key)
        /\ DictGet(after, before[k].key) = before[k]

\* C16: no step of any run, whether it succeeds, fails in part or is ended by an
\* error, removes a key from the job log file or changes the entry stored under
\* one, and none removes or changes an entry of the persisted summaries.
C16_LogOnlyGrows ==
    [][ /\ logFile.exists =>
            logFile'.exists /\ EntriesKept(logFile.papers, logFile'.papers)
        /\ sumFile.exists =>
            sumFile'.exists /\ EntriesKept(sumFile.summaries, sumFile'.summaries) ]_vars

\* a run that followed one with a failed download, started from a log with
\* entries, and saved a log with one entry more
C16_Witness ==
    /\ dl.pc = "done"
    /\ hist.outcome = "done" /\ ~hist.allOk
    /\ dl.startLog # <<>>
    /\ Len(logFile.papers) > Len(dl.startLog)
    /\ EntriesKept(dl.startLog, logFile.papers)

(***************************************************************************)
(* Claims about a process killed while it saves (KillSpec).                *)
(***************************************************************************)
\* C17: after the process was terminated during a save of the cache file or of
\* the job log file, the file holds the complete old table or the complete new
\* one, in a valid format.
C17_KillLeavesValidFile ==
    /\ cacheOp.op = "killed" =>
           /\ cacheFile \in {cacheOp.before, cacheOp.intended}
           /\ topFile \in {cacheOp.topBefore, cacheOp.topIntended}
    /\ dl.pc = "killed" => logFile \in {NoLogFile, LogFileOf(dl.log)}

(***************************************************************************)
(* Claims about analyze_papers (AnalyzeSpec).                              *)
(***************************************************************************)
\* the scorer returned a result that is relevant and scored at least the minimum;
\* a result without a score counts as scored 0
Qualifies(outcome, min_relevance_score) ==
    /\ outcome.ok
    /\ "is_relevant" \in DOMAIN outcome.v /\ outcome.v.is_relevant
    /\ (IF "relevance_score" \in DOMAIN outcome.v THEN outcome.v.relevance_score ELSE 0)
           >= min_relevance_score

\* the positions of the input papers that qualify, in input order
RECURSIVE QualifyingFrom(_, _, _)
QualifyingFrom(k, results, min_relevance_score) ==
    IF k > Len(results) THEN <<>>
    ELSE (IF Qualifies(results[k], min_relevance_score) THEN <<k>> ELSE <<>>)
             \o QualifyingFrom(k + 1, results, min_relevance_score)

C20_ExportRoundTrip ==
    ex.pc = "read" =>
        /\ ex.data.ok
        /\ LET loaded == ex.data.v.m.papers.a IN
           /\ Len(loaded) = Len(ex.papers)
           /\ \A i \in DOMAIN ex.papers :
               /\ DOMAIN loaded[i].m = DOMAIN ex.papers[i].m
               /\ \A field \in DOMAIN ex.papers[i].m : loaded[i].m[field] = ex.papers[i].m[field]
        /\ ex.data.v.m.metadata.m.paper_count = JNum(Len(ex.papers))

\* two different records were exported and read back, one with a title that
\* holds a quote and a backslash
C20_Witness ==
    /\ ex.pc = "read"
    /\ ex.data.ok
    /\ Len(ex.papers) = 2
    /\ ex.papers[1] # ex.papers[2]
    /\ ex.papers[1].m.title = JStr(<<"\"", "\\">>)
    /\ exFile.name = <<"out", ".json">>

(***************************************************************************)
(* Claims about repeated work in the stages (Spec).                        *)
(***************************************************************************)
\* C22: the parse stage does not call the document-to-text operation for a paper
\* whose extracted text is already in its directory.
C22_NoReparse ==
    [][Len(ps'.calls) > Len(ps.calls) => ~dirs[ps'.calls[Len(ps'.calls)]].md.file]_vars

\* C25: within one download_papers run no canonical id is attempted twice, and
\* within one process_papers run no title is given to the summarizer twice, also
\* after a failed attempt.
C25_OneAttemptPerItem ==
    /\ \A j, k \in DOMAIN dl.calls : dl.calls[j] = dl.calls[k] => j = k
    /\ \A j, k \in DOMAIN sm.calls : sm.calls[j] = sm.calls[k] => j = k

\* C28: when a download_papers run has ended, with or without an error, every
\* paper it downloaded has its entry in the persisted job log.
C28_SuccessesPersisted ==
    dl.pc \in {"done", "error"} =>
        \A k \in DOMAIN dl.log : DictHas(LoadDownloadLog(logFile), dl.log[k].key)

(***************************************************************************)
(* Claims about the order of the stages (Spec).                            *)
(***************************************************************************)
\* the analysis stage judged the record relevant
JudgedRelevant(paper) == "analysis" \in DOMAIN paper /\ paper.analysis.is_relevant

\* C23: a title is given to the summarizer only if its extracted text is on disk,
\* a paper is given to the document-to-text operation only if it has a job log
\* entry and its PDF is on disk, and a download is attempted only for a record
\* that the analysis stage judged relevant.
C23_StagesInOrder ==
    /\ \A k \in DOMAIN sm.calls :
        sm.calls[k] \in DOMAIN dirs /\ dirs[sm.calls[k]].md.file
    /\ \A k \in DOMAIN ps.calls :
        /\ ps.calls[k] \in DOMAIN dirs /\ dirs[ps.calls[k]].pdf.file
        /\ \E e \in DOMAIN LoadDownloadLog(logFile) :
            DirOf(LoadDownloadLog(logFile)[e].value.directory) = ps.calls[k]
    /\ \A k \in DOMAIN dl.calls :
        \E j \in DOMAIN dl.papers :
            GetArxivId(dl.papers[j]) = Ok(dl.calls[k]) /\ JudgedRelevant(dl.papers[j])

(***************************************************************************)
(* Claims about the name of a paper's directory (NameSpec).                *)
(***************************************************************************)
\* the positions of a name that hold something other than whitespace
Inked(s) == {i \in 1..Len(s) : s[i] \notin Whitespace}
\* the title with each character outside letters, digits, space and hyphen replaced
\* by an underscore, cut to its first 100 characters, taken from the first to the
\* last character that is not whitespace
NameRule(title) ==
    LET replaced == [i \in 1..Len(title) |->
                        IF title[i] \in Alnum \cup {" ", "-"} THEN title[i] ELSE "_"]
        cut  == [i \in 1..Min(100, Len(title)) |-> replaced[i]]
        inks == Inked(cut)
    IN  IF inks = {} THEN <<>>
        ELSE LET first == CHOOSE i \in inks : \A j \in inks : i <= j
                 last  == CHOOSE i \in inks : \A j \in inks : j <= i
             IN  [k \in 1..(last - first + 1) |-> cut[first + k - 1]]

\* C24: the name _create_paper_dir gives a directory is the title with every
\* character that is not alphanumeric, a space or a hyphen replaced by an
\* underscore, then cut to its first 100 characters, then stripped; it is at most
\* 100 characters long, has no leading or trailing whitespace, and sanitising it
\* again leaves it unchanged.
C24_DirNameSanitized ==
    created.called =>
        /\ created.name = NameRule(created.title)
        /\ Len(created.name) <= 100
        /\ created.name # <<>> =>
              created.name[1] \notin Whitespace /\ created.name[Len(created.name)] \notin Whitespace
        /\ DirName(created.name) = created.name

\* a title longer than 100 characters whose 100th character is a space was named:
\* the cut leaves a trailing space for the strip to take away
C24_Witness ==
    /\ created.called
    /\ Len(created.title) > 100
    /\ created.title[100] = " "
    /\ created.title[1] = " "
    /\ Len(created.name) < 99
    /\ created.name # <<>>

(***************************************************************************)
(* Claims about the command line (CliSpec).                                *)
(***************************************************************************)
\* C21: a command whose stage fails as a whole (a missing LLAMA_CLOUD_API_KEY for
\* parse, an input file or job log that cannot be read, a failed fetch) ends with
\* a non-zero exit status and a printed message; none ends with exit status 0.
C21_FailureExitsNonZero ==
    /\ (cli.command \in {"analyze", "download", "parse", "summarize"} /\ cli.failure # "none")
          => (cli.exit # 0 /\ cli.printed = "Error")
    /\ (cli.command = "fetch" /\ cli.days \in 1..30 /\ ~cli.papers.ok)
          => (cli.exit # 0 /\ cli.printed = "Error")

\* the run_fetcher calls that got past the validation of days
Fetching == cli.command = "fetch" /\ "key" \in DOMAIN cli

\* C26: the cache key of run_fetcher tells apart every two pairs of days and date;
\* and a run_fetcher call with the same days on the same date as a call that
\* stored its result less than CACHE_DURATION seconds before returns the stored
\* list, the empty list included, and makes no request to the API.
C26_SameKeySameResult ==
    Fetching =>
        /\ \A d \in FetchDays :
              (fetched[d].stored /\ fetched[d].key = cli.key)
                  => (d = cli.actual_days /\ fetched[d].date = cli.date)
        /\ (/\ cli.prior.stored
            /\ cli.prior.date = cli.date
            /\ cli.at - cli.prior.at < cacheDuration)
              => /\ cli.exit = 0
                 /\ cli.papers = Ok(cli.prior.papers)
                 /\ cli.requests = 0

\* a call that found the empty list another call had stored one second before,
\* while the list stored for another number of days on that date was not empty
C26_Witness ==
    /\ Fetching
    /\ cli.prior.stored
    /\ cli.prior.date = cli.date
    /\ cli.at - cli.prior.at = 1
    /\ cli.prior.papers = JArr(<<>>)
    /\ cli.requests = 0
    /\ \E d \in FetchDays : d # cli.actual_days /\ fetched[d].stored
                          /\ fetched[d].date = cli.date /\ fetched[d].papers # JArr(<<>>)

\* C30: run_fetcher with a days value outside 1..30, zero and the negative numbers
\* included, prints 'Error: Days must be between 1 and 30' and exits with status 1
\* without a cache access or an API request; only the values 1..30 lead to a fetch.
C30_DaysOutOfRangeRejected ==
    cli.command = "fetch" =>
        /\ cli.days \notin 1..30 =>
              /\ cli.exit = 1
              /\ cli.printed = DaysError
              /\ cli.requests = 0
              /\ cli.cache_calls = 0
        /\ (cli.requests > 0 \/ cli.cache_calls > 0) => cli.days \in 1..30

(***************************************************************************)
(* Claims about running the commands again (ResumeSpec).                   *)
(***************************************************************************)
IdOf(paper) == GetArxivId(paper).v
\* every record of the input has its entry in the job log file
AllDownloaded ==
    \A k \in DOMAIN inputFile : DictHas(LoadDownloadLog(logFile), IdOf(inputFile[k]))
\* every record of the input has the summary of its directory in the summaries file
AllSummarized ==
    /\ sumFile.exists
    /\ \A k \in DOMAIN inputFile : DictHas(sumFile.summaries, DirName(inputFile[k].title))
\* A download run that is over: an item it failed is in the log file only if another
\* record with the same id was downloaded; every record that was not in the log
\* when the run started was attempted, and no other record was.
DownloadRetries ==
    dl.pc = "done" =>
        /\ \A k \in dl.failed :
              DictHas(LoadDownloadLog(logFile), IdOf(dl.papers[k]))
                  => \E j \in DOMAIN dl.papers :
                        j \notin dl.failed /\ IdOf(dl.papers[j]) = IdOf(dl.papers[k])
        /\ \A k \in DOMAIN dl.papers :
              DictHas(dl.startLog, IdOf(dl.papers[k]))
                  <=> (\A c \in DOMAIN dl.calls : dl.calls[c] # IdOf(dl.papers[k]))
\* the same for a summarize run and the titles that have their text on disk
SummaryRetries ==
    sm.pc = "done" =>
        /\ \A k \in sm.failed :
              DictHas(sumFile.summaries, sm.titles[k])
                  => \E j \in DOMAIN sm.titles : j \notin sm.failed /\ sm.titles[j] = sm.titles[k]
        /\ \A k \in DOMAIN sm.titles :
              DictHas(sm.startSummaries, sm.titles[k])
                  => (\A c \in DOMAIN sm.calls : sm.calls[c] # sm.titles[k])

\* C29: an item whose download (or summarization) failed in a run has no entry in
\* the job log (the summaries), so the next run attempts it again while the items
\* that are recorded are not attempted; and when no item's operation fails forever,
\* after finitely many runs every item of the input is recorded as downloaded and
\* summarized for good, and a run made then calls no download and no summarizer.
C29_Resumable ==
    /\ [](DownloadRetries /\ SummaryRetries)
    /\ <>[](AllDownloaded /\ AllSummarized)

\* a run that attempted only the record the run before had failed, and downloaded
\* it: every record of the input is in the log now
C29_Witness ==
    /\ dl.pc = "done"
    /\ hist.outcome = "done"
    /\ ~hist.allOk
    /\ Len(hist.calls) = 2
    /\ Len(dl.calls) = 1
    /\ dl.failed = {}
    /\ AllDownloaded

(***************************************************************************)
(* Claims about the two CacheManager variants side by side (CacheSpec).    *)
(***************************************************************************)
\* C33: the CacheManager of arxiv_fetcher/cache_manager.py and the one of
\* cache_manager.py cannot be told apart: from the same cache file, whatever it
\* holds, every get and set made on both at the same clock time returns the same
\* value or raises in both, and both leave the same file.
C33_VariantsEquivalent ==
    /\ cacheFile = topFile
    /\ cacheOp.op # "none" =>
          /\ cacheOp.pkg.ok = cacheOp.top.ok
          /\ cacheOp.pkg.ok => cacheOp.pkg.v = cacheOp.top.v

(***************************************************************************)
(* Claims about what a cache call leaves on disk (CacheSpec).              *)
(***************************************************************************)
\* a cache file that holds a table: a JSON object
IsTable(file) == file.kind = "json" /\ file.doc.t = "obj"
\* the second file holds every entry of the first, unchanged, but for the one of key
OthersKept(before, after, key) ==
    /\ IsTable(after)
    /\ DOMAIN after.doc.m = (DOMAIN before.doc.m) \cup {key}
    /\ \A k \in (DOMAIN before.doc.m) \ {key} : after.doc.m[k] = before.doc.m[k]

\* C32: on a cache file that holds a table, set(K, V) changes the entry of K only:
\* the timestamp and payload of every other key stay as they were; and get never
\* changes the file, so an expired entry stays on disk as it is until a set of its
\* key replaces it.  Both CacheManager variants.
C32_OnlyTheKeyChanges ==
    [][ /\ cacheOp'.op = "get" => (cacheFile' = cacheFile /\ topFile' = topFile)
        /\ (cacheOp'.op = "set" /\ IsTable(cacheFile))
              => OthersKept(cacheFile, cacheFile', cacheOp'.key)
        /\ (cacheOp'.op = "set" /\ IsTable(topFile))
              => OthersKept(topFile, topFile', cacheOp'.key)
      ]_vars

\* a set of one key has just replaced that key's entry in a table that also held
\* an expired entry of the other key, which is still there
C32_Witness ==
    /\ cacheOp.op = "set"
    /\ cacheOp.pkg.ok
    /\ IsTable(cacheOp.before)
    /\ cacheDuration > 0
    /\ cacheOp.key \in DOMAIN cacheOp.before.doc.m
    /\ cacheFile.doc.m[cacheOp.key] # cacheOp.before.doc.m[cacheOp.key]
    /\ \E k \in CacheKeys \ {cacheOp.key} :
          /\ k \in DOMAIN cacheFile.doc.m
          /\ lastSet[k].set
          /\ cacheFile.doc.m[k] = CacheEntry(lastSet[k].at, lastSet[k].value)
          /\ cacheOp.at - lastSet[k].at >= cacheDuration

(***************************************************************************)
(* Claims about a failed fetch and the cache (CliSpec).                    *)
(***************************************************************************)
\* the last command was a run_fetcher call whose fetch_papers raised
FetchFailedIn(c) ==
    /\ c.command = "fetch"
    /\ "key" \in DOMAIN c
    /\ c.requests = 1
    /\ c.papers = Raise(WrappedError)

\* C31: a run_fetcher call whose fetch fails leaves the cache file as it was before
\* the call, with no entry written for the key of the query; the next call with
\* the same key misses the cache and asks the API again.
C31_FailedFetchLeavesCache ==
    [][ /\ FetchFailedIn(cli') => cacheFile' = cacheFile
        /\ (FetchFailedIn(cli) /\ cli'.command = "fetch" /\ "key" \in DOMAIN cli'
                /\ cli'.key = cli.key)
              => cli'.requests = 1
      ]_vars

\* a call whose fetch failed, made after the list stored for its days had expired,
\* while the cache held fresh entries of other keys: the file holds what it held,
\* and a lookup of the key still misses
C31_Witness ==
    /\ FetchFailedIn(cli)
    /\ cli.exit = 1
    /\ cli.prior.stored
    /\ cli.prior.date = cli.date
    /\ IsTable(cacheFile)
    /\ cacheFile.doc.m[cli.prior.key] = CacheEntry(cli.prior.at, cli.prior.papers)
    /\ PkgGet(cacheFile, cli.key, now, cacheDuration) = Ok(PyNone)
    /\ \E d \in FetchDays : d # cli.actual_days /\ fetched[d].stored /\ fetched[d].at = cli.at
====
